---- MODULE Spec2Model ----
(***************************************************************************)
(* A model of the cwtch server.                                             *)
(*                                                                         *)
(* Spec       the sqlite3 backed message store (storage/message_store.go): *)
(*            the messages table, the prepared insert and suffix-select    *)
(*            statements, AddMessage, FetchMessages, FetchMessagesFrom and *)
(*            MessagesCount.                                               *)
(* SpecServer the server facade: Run, CheckStatus, Shutdown, the two       *)
(*            listener tasks, and the connections served by the two        *)
(*            endpoints.                                                   *)
(* SpecConfig the server configuration on disk and in memory: create,      *)
(*            load, save, attributes, delete, and the servers manager.     *)
(*                                                                         *)
(* Byte slices are sequences of integers in 0..255 (a nil slice and an     *)
(* empty slice are both <<>>: the code only ever takes their len).  Text   *)
(* columns are sequences of one-character strings.                         *)
(***************************************************************************)
EXTENDS Integers, Sequences, FiniteSets, TLC

VARIABLES
    table,           \* rows of the messages table: [id, signature, ciphertext]
    seq,             \* sqlite_sequence of the AUTOINCREMENT primary key
    messageCounter,  \* number of calls of incMessageCounterFn
    lastOp,          \* the last call made on the store, with its arguments
    reply,           \* the value returned by the last fetch / count call
    submitted,       \* history: the signatures handed to AddMessage so far
    applied,         \* history: the messages of the successful inserts, in order
    purged,          \* history: rows were deleted behind the store's back
    pending,         \* the AddMessage call each producer goroutine is in, and
                     \* history: the signatures two overlapping calls carried
    server,          \* the fields of the server struct
    tasks,           \* the two listener goroutines spawned by Run
    proc,            \* the process: "ok", "panic" (crashed) or "blocked"
    trace,           \* history: how often Run ran, spawned, started, opened
    conns,           \* the connection served by each endpoint
    disk,            \* the config directories: salt file and config file
    mem,             \* the Config held in memory for each config directory
    mh,              \* a monitorHistory, its sampler goroutine and its callers
    ctr,             \* a counter and the goroutines calling Add on it
    pack,            \* the Messages monitor of the Monitors: its closure's
                     \* position and the TotalMessageCounter
    setters          \* the SetAttribute call each goroutine is in, and history:
                     \* the last value written for each key

storeVars == <<table, seq, messageCounter, submitted, applied, purged, pending>>

facadeVars == <<server, tasks, proc, trace>>

boardVars == <<conns>>

configVars == <<disk, mem, setters>>

metricsVars == <<mh, ctr, pack>>

vars == <<table, seq, messageCounter, lastOp, reply, submitted, applied, purged, pending,
          server, tasks, proc, trace, conns, disk, mem, mh, ctr, pack, setters>>

(***************************************************************************)
(* Bounds and inputs.                                                      *)
(***************************************************************************)
MaxAdds == 3

\* the number of Run calls made on one server
MaxRuns == 2

\* the number of requests made on one connection
MaxRequests == 2

\* signatures: empty, one and two bytes (padded quantum), four bytes (a full
\* quantum followed by a padded one)
SigInputs == { <<>>, <<255>>, <<72, 105>>, <<72, 105, 33, 0>> }

CtInputs == { <<>>, <<88>> }

\* the messages handed to AddMessage: both ciphertexts for the empty and for
\* one non-empty signature (so that a repeated signature can carry another
\* ciphertext), one message for each other signature
Messages ==
    [Signature : { <<>>, <<255>> }, Ciphertext : CtInputs]
        \cup { [Signature |-> <<72, 105>>, Ciphertext |-> <<88>>],
               [Signature |-> <<72, 105, 33, 0>>, Ciphertext |-> <<>>] }

(***************************************************************************)
(* encoding/base64, StdEncoding.                                           *)
(***************************************************************************)
encodeStd ==
    << "A","B","C","D","E","F","G","H","I","J","K","L","M",
       "N","O","P","Q","R","S","T","U","V","W","X","Y","Z",
       "a","b","c","d","e","f","g","h","i","j","k","l","m",
       "n","o","p","q","r","s","t","u","v","w","x","y","z",
       "0","1","2","3","4","5","6","7","8","9","+","/" >>

StdPadding == "="

\* one quantum of 1..3 source bytes -> 4 characters
EncodeQuantum(b) ==
    LET n   == Len(b)
        val == b[1] * 65536
               + (IF n >= 2 THEN b[2] * 256 ELSE 0)
               + (IF n >= 3 THEN b[3] ELSE 0)
    IN  << encodeStd[((val \div 262144) % 64) + 1],
           encodeStd[((val \div 4096) % 64) + 1],
           IF n >= 2 THEN encodeStd[((val \div 64) % 64) + 1] ELSE StdPadding,
           IF n >= 3 THEN encodeStd[(val % 64) + 1] ELSE StdPadding >>

RECURSIVE EncodeToString(_)
EncodeToString(src) ==
    IF Len(src) = 0 THEN <<>>
    ELSE IF Len(src) <= 3 THEN EncodeQuantum(src)
    ELSE EncodeQuantum(SubSeq(src, 1, 3)) \o EncodeToString(SubSeq(src, 4, Len(src)))

IsStdChar(c) == \E i \in 1..64 : encodeStd[i] = c

decodeMap(c) == (CHOOSE i \in 1..64 : encodeStd[i] = c) - 1

\* a quantum is well formed when it is xxxx, xxx= or xx==
QuantumOK(q) ==
    /\ IsStdChar(q[1]) /\ IsStdChar(q[2])
    /\ \/ IsStdChar(q[3]) /\ (IsStdChar(q[4]) \/ q[4] = StdPadding)
       \/ q[3] = StdPadding /\ q[4] = StdPadding

DecodeQuantum(q) ==
    LET val == decodeMap(q[1]) * 262144 + decodeMap(q[2]) * 4096
               + (IF q[3] # StdPadding THEN decodeMap(q[3]) * 64 ELSE 0)
               + (IF q[4] # StdPadding THEN decodeMap(q[4]) ELSE 0)
        b1  == (val \div 65536) % 256
        b2  == (val \div 256) % 256
        b3  == val % 256
    IN  IF q[3] = StdPadding THEN <<b1>>
        ELSE IF q[4] = StdPadding THEN <<b1, b2>>
        ELSE <<b1, b2, b3>>

\* DecodeString returns the bytes decoded before the first corrupt quantum;
\* the callers drop the error
RECURSIVE DecodeString(_)
DecodeString(s) ==
    IF Len(s) < 4 THEN <<>>
    ELSE LET q == SubSeq(s, 1, 4)
         IN  IF ~QuantumOK(q) THEN <<>>
             ELSE IF q[4] = StdPadding THEN DecodeQuantum(q)
             ELSE DecodeQuantum(q) \o DecodeString(SubSeq(s, 5, Len(s)))


(***************************************************************************)
(* The sqlite3 database: table messages and its two prepared statements.   *)
(***************************************************************************)

\* SELECT ... FROM messages walks the table b-tree, i.e. in rowid order
RECURSIVE RowidOrder_Descending(_)
RowidOrder_Descending(rows) ==
    IF rows = {} THEN <<>>
    ELSE LET last == CHOOSE r \in rows : \A x \in rows : x.id <= r.id
         IN  <<last>> \o RowidOrder_Descending(rows \ {last})

RECURSIVE RowidOrder(_)
RowidOrder(rows) ==
    IF rows = {} THEN <<>>
    ELSE LET first == CHOOSE r \in rows : \A x \in rows : r.id <= x.id
         IN  <<first>> \o RowidOrder(rows \ {first})

\* signature TEXT UNIQUE NOT NULL: no row holds this signature text yet
UniqueSignature_NoConstraint(db, sigText) == TRUE

UniqueSignature(db, sigText) == \A r \in db : r.signature # sigText

\* INSERT INTO messages(signature, ciphertext) values (?,?) with id
\* INTEGER PRIMARY KEY AUTOINCREMENT: the new id is one more than the
\* largest id ever used; a constraint failure leaves the database as it was
preparedInsertStatement_OrReplace(db, s, sigText, ctText) ==
    [ table |-> { r \in db : r.signature # sigText }
                  \cup { [id |-> s + 1, signature |-> sigText, ciphertext |-> ctText] },
      seq   |-> s + 1,
      err   |-> FALSE ]

preparedInsertStatement(db, s, sigText, ctText) ==
    IF UniqueSignature(db, sigText)
    THEN [ table |-> db \cup { [id |-> s + 1, signature |-> sigText, ciphertext |-> ctText] },
           seq   |-> s + 1,
           err   |-> FALSE ]
    ELSE [ table |-> db, seq |-> s, err |-> TRUE ]

\* SELECT id, signature,ciphertext FROM messages
\*   WHERE id>=(SELECT id FROM messages WHERE signature=(?))
\* the scalar subquery is NULL when no row matches, and id >= NULL selects nothing
preparedFetchFromQuery_After(db, sigText) ==
    LET match == { r.id : r \in { x \in db : x.signature = sigText } }
    IN  IF match = {} THEN <<>>
        ELSE LET from == CHOOSE i \in match : \A j \in match : i <= j
             IN  RowidOrder({ r \in db : r.id > from })

preparedFetchFromQuery(db, sigText) ==
    LET match == { r.id : r \in { x \in db : x.signature = sigText } }
    IN  IF match = {} THEN <<>>
        ELSE LET from == CHOOSE i \in match : \A j \in match : i <= j
             IN  RowidOrder({ r \in db : r.id >= from })

(***************************************************************************)
(* SqliteMessageStore.                                                     *)
(***************************************************************************)
compileRows(rows) ==
    [ i \in 1..Len(rows) |->
        [ Signature  |-> DecodeString(rows[i].signature),
          Ciphertext |-> DecodeString(rows[i].ciphertext) ] ]

\* the effect of AddMessage on the database; outcome names the path taken
AddMessage_KeepsEmpty(db, s, message) ==
    LET r == preparedInsertStatement(db, s, EncodeToString(message.Signature),
                                     EncodeToString(message.Ciphertext))
    IN  [ table |-> r.table, seq |-> r.seq,
          outcome |-> IF r.err THEN "rejected" ELSE "inserted" ]

AddMessage(db, s, message) ==
    IF Len(message.Signature) = 0
    THEN [ table |-> db, seq |-> s, outcome |-> "dropped" ]
    ELSE LET r == preparedInsertStatement(db, s, EncodeToString(message.Signature),
                                          EncodeToString(message.Ciphertext))
         IN  [ table |-> r.table, seq |-> r.seq,
               outcome |-> IF r.err THEN "rejected" ELSE "inserted" ]

MessagesCount(db) == Cardinality(db)

FetchMessages_Descending(db) == compileRows(RowidOrder_Descending(db))

FetchMessages(db) == compileRows(RowidOrder(db))

FetchMessagesFrom_QueryOnly(db, signature) ==
    compileRows(preparedFetchFromQuery(db, EncodeToString(signature)))

FetchMessagesFrom_NoResync(db, signature) ==
    IF Len(signature) = 0 THEN FetchMessages(db)
    ELSE compileRows(preparedFetchFromQuery(db, EncodeToString(signature)))

FetchMessagesFrom(db, signature) ==
    IF Len(signature) = 0 THEN FetchMessages(db)
    ELSE LET messages == compileRows(preparedFetchFromQuery(db, EncodeToString(signature)))
         IN  IF Len(messages) < 1 THEN FetchMessages(db) ELSE messages

(***************************************************************************)
(* The state machine: a store opened on a fresh database file, and the     *)
(* calls made on it.                                                       *)
(***************************************************************************)
NoMessage == [Signature |-> <<>>, Ciphertext |-> <<>>]

Call(op, message, outcome) == [op |-> op, message |-> message, outcome |-> outcome]

Endpoints == {"onion", "token"}

\* NewServer: running is false, no service exists yet, the flags are unset,
\* the metrics pack is the zero Monitors and the RWMutex is unlocked
NewServer ==
    [ service              |-> "nil",
      tokenTapirService    |-> "nil",
      tokenServiceStopped  |-> FALSE,
      onionServiceStopped  |-> FALSE,
      running              |-> FALSE,
      existingMessageCount |-> 0,
      metricsPack          |-> "zero",
      lock                 |-> "free" ]

NoConnection == [open |-> FALSE, caps |-> {}, requests |-> 0]

\* two ed25519 public keys (32 bytes each), the outcomes of key generation
KeyA == [i \in 1..32 |-> IF i % 4 = 1 THEN 255 ELSE i]

KeyB == [i \in 1..32 |-> IF i % 4 = 0 THEN 7 * i ELSE 0]

\* initDefaultConfig draws a service identity, a token identity and the
\* token root k at random: two outcomes that differ in every component
FreshKeys ==
    { [PublicKey |-> KeyA, PrivateKey |-> <<"private", KeyA>>,
       TokenServerPublicKey |-> KeyB, TokenServerPrivateKey |-> <<"private", KeyB>>,
       TokenServiceK |-> "k1"],
      [PublicKey |-> KeyB, PrivateKey |-> <<"private", KeyB>>,
       TokenServerPublicKey |-> KeyA, TokenServerPrivateKey |-> <<"private", KeyA>>,
       TokenServiceK |-> "k2"] }

\* tor.GetTorV3Hostname(publicKey) + ".onion": the address is an encoding of
\* the public key, its checksum and the version, one address for each key
GetTorV3Hostname(publicKey) == <<publicKey, ".onion">>

\* the directory of the server application (CWTCH_HOME) and the directories
\* a servers manager keeps, one for each onion address
HomeDir == << <<>>, "." >>

ServerDirs == { GetTorV3Hostname(f.PublicKey) : f \in FreshKeys }

Dirs == ServerDirs \cup {HomeDir}

\* a directory that does not exist; an existing one holds at most a SALT file
\* and a config file (its plaintext, and the key it is encrypted with)
NoDir == [exists |-> FALSE, salt |-> <<>>, file |-> <<>>]

\* no Config is held for a directory
NoConfig == <<>>

\* the goroutines that call Add on one counter, and the units they add
Producers == {"p1", "p2", "p3"}

Units == {1, 2}

\* NewCounter: a count of 0. The other fields are what the goroutines are
\* doing: pc is "idle" or "adding" (Add was called, atomic.AddUint64 has not
\* executed), unit the argument of the call, seen the count when the call
\* began; added and calls are history: the units added since the last Reset
\* and the number of Add calls
NewCounter ==
    [ count |-> 0,
      pc    |-> [p \in Producers |-> "idle"],
      unit  |-> [p \in Producers |-> 0],
      seen  |-> [p \in Producers |-> 0],
      added |-> 0,
      calls |-> 0 ]

\* Monitors.Start: TotalMessageCounter is a new counter; the closure of the
\* Messages monitor is not running (pc "idle"), c is its named result and
\* calls the number of times the sampler has called it
MonitorsStart ==
    [ TotalMessageCounter |-> [count |-> 0],
      pc    |-> "idle",
      c     |-> 0,
      calls |-> 0 ]

Cumulative == "Cumulative"

Average == "Average"

\* durations and instants are counted in seconds
Minute == 60

Hour == 60 * Minute

\* samples are multiples of Scale, the product of the ring lengths 60, 24, 7
\* and 4, so that the averages of all tiers are whole numbers
Scale == 60 * 24 * 7 * 4

\* the monitor closure handed to NewMonitorHistory, and the value returned
\* by its n-th call
MonitorClosures == {"ramp"}

monitor(closure, n) == n * Scale

Zeros(n) == [i \in 1..n |-> 0]

\* NewMonitorHistory: zeroed rings, every timeLast...Rotate is time.Now(),
\* and Start has spawned the sampler, which waits in its select. stopper is
\* the caller of Stop; now, calls, stops, samples and rotations are history:
\* the clock, the number of monitor() calls and of Stop calls, the values
\* sampled (the latest first) and the instants at which each tier rotated
NewMonitorHistory(a, closure, now) ==
    [ monitorAccumulation |-> a,
      monitor             |-> closure,
      perMinutePerHour    |-> Zeros(60),
      timeLastHourRotate  |-> now,
      perHourForDay       |-> Zeros(24),
      timeLastDayRotate   |-> now,
      perDayForWeek       |-> Zeros(7),
      timeLastWeekRotate  |-> now,
      perWeekForMonth     |-> Zeros(4),
      timeLastMonthRotate |-> now,
      perMonthForYear     |-> Zeros(12),
      sampler             |-> "waiting",
      stopper             |-> "idle",
      starttime           |-> now,
      now                 |-> now,
      calls               |-> 0,
      stops               |-> 0,
      samples             |-> <<>>,
      rotations           |-> [hour |-> <<>>, day |-> <<>>, week |-> <<>>, month |-> <<>>] ]

\* no monitorHistory was constructed yet: no sampler exists
NoMonitorHistory == [NewMonitorHistory(Cumulative, "ramp", 0) EXCEPT !.sampler = "none"]

\* the goroutines that call SetAttribute on one Config
Writers == {"w1", "w2"}

\* no SetAttribute call was made yet
NoSetters ==
    [ pc         |-> [w \in Writers |-> "idle"],
      set        |-> [w \in Writers |-> <<>>],
      last       |-> <<>>,
      calls      |-> 0,
      overlapped |-> FALSE ]

Init ==
    /\ setters = NoSetters
    /\ server = NewServer
    /\ tasks = [e \in Endpoints |-> "none"]
    /\ proc = "ok"
    /\ trace = [runs |-> 0, spawns |-> 0, starts |-> 0, opens |-> 0]
    /\ conns = [e \in Endpoints |-> NoConnection]
    /\ disk = [d \in Dirs |-> NoDir]
    /\ mem = [d \in Dirs |-> NoConfig]
    /\ mh = NoMonitorHistory
    /\ ctr = NewCounter
    /\ pack = MonitorsStart
    /\ table = {}
    /\ seq = 0
    /\ messageCounter = 0
    /\ lastOp = Call("open", NoMessage, "ok")
    /\ reply = <<>>
    /\ submitted = {}
    /\ applied = <<>>
    /\ purged = FALSE
    /\ pending = [call |-> [p \in Producers |-> <<>>], overlapped |-> {}]

CallAddMessage(message) ==
    /\ messageCounter < MaxAdds
    /\ messageCounter' = messageCounter + 1
    /\ LET r == AddMessage(table, seq, message)
       IN  /\ table' = r.table
           /\ seq' = r.seq
           /\ applied' = IF r.outcome = "inserted" THEN Append(applied, message) ELSE applied
           /\ lastOp' = Call("add", message, r.outcome)
    /\ submitted' = submitted \cup {message.Signature}
    /\ UNCHANGED <<reply, purged, pending>>
    /\ UNCHANGED <<facadeVars, boardVars, configVars, metricsVars>>

CallFetchMessages ==
    /\ reply' = FetchMessages(table)
    /\ lastOp' = Call("fetch_all", NoMessage, "ok")
    /\ UNCHANGED <<table, seq, messageCounter, submitted, applied, purged, pending>>
    /\ UNCHANGED <<facadeVars, boardVars, configVars, metricsVars>>

CallFetchMessagesFrom(signature) ==
    /\ reply' = FetchMessagesFrom(table, signature)
    /\ lastOp' = Call("fetch_from", [Signature |-> signature, Ciphertext |-> <<>>], "ok")
    /\ UNCHANGED <<table, seq, messageCounter, submitted, applied, purged, pending>>
    /\ UNCHANGED <<facadeVars, boardVars, configVars, metricsVars>>

CallMessagesCount ==
    /\ reply' = MessagesCount(table)
    /\ lastOp' = Call("count", NoMessage, "ok")
    /\ UNCHANGED <<table, seq, messageCounter, submitted, applied, purged, pending>>
    /\ UNCHANGED <<facadeVars, boardVars, configVars, metricsVars>>

\* an administrator deletes the rows whose id is below n, outside the store
Purge(n) ==
    /\ \E r \in table : r.id < n
    /\ table' = { r \in table : r.id >= n }
    /\ purged' = TRUE
    /\ lastOp' = Call("purge", NoMessage, "ok")
    /\ UNCHANGED <<seq, messageCounter, reply, submitted, applied, pending>>
    /\ UNCHANGED <<facadeVars, boardVars, configVars, metricsVars>>

Next ==
    \/ \E message \in Messages : CallAddMessage(message)
    \/ CallFetchMessages
    \/ \E signature \in SigInputs : CallFetchMessagesFrom(signature)
    \/ CallMessagesCount
    \/ \E n \in 1..(seq + 1) : Purge(n)

Spec == Init /\ [][Next]_vars

TypeOK ==
    /\ \A r \in table : r.id \in 1..seq
    /\ seq \in 0..MaxAdds
    /\ messageCounter \in 0..MaxAdds
    /\ submitted \subseteq SigInputs
    /\ purged \in BOOLEAN


(***************************************************************************)
(* Properties of the message store.                                        *)
(***************************************************************************)
IsAddStep == messageCounter' = messageCounter + 1

StoredSignatures(db) ==
    { FetchMessages(db)[i].Signature : i \in 1..Len(FetchMessages(db)) }

\* C1: after any sequence of AddMessage calls on an initially empty store (no
\* purge), FetchMessages returns as many messages as there are distinct
\* non-empty signatures among the submitted messages.
C1_FetchAllCountsDistinctSignatures ==
    (lastOp.op = "fetch_all" /\ ~purged)
        => Len(reply) = Cardinality({ sig \in submitted : Len(sig) > 0 })

C1_Witness ==
    /\ lastOp.op = "fetch_all" /\ ~purged
    /\ messageCounter = 3
    /\ submitted = { <<>>, <<72, 105>> }
    /\ Len(reply) = 1

\* C2: with no purge, FetchMessagesFrom(sig) for the signature of the k-th
\* inserted message of N returns the N-k+1 messages inserted at positions
\* k..N, in insertion order, starting with the message signed sig.
C2_FetchFromReturnsSuffix ==
    (lastOp.op = "fetch_from" /\ ~purged)
        => \A k \in 1..Len(applied) :
              applied[k].Signature = lastOp.message.Signature
                 => /\ Len(reply) = MessagesCount(table) - k + 1
                    /\ reply = SubSeq(applied, k, Len(applied))
                    /\ reply[1].Signature = lastOp.message.Signature

C2_Witness ==
    /\ lastOp.op = "fetch_from" /\ ~purged
    /\ Len(applied) = 3
    /\ applied[2].Signature = lastOp.message.Signature
    /\ Len(reply) = 2

\* C3: FetchMessagesFrom with a non-empty signature that matches no stored
\* message (never inserted, or purged) returns what FetchMessages returns on
\* the current store.
C3_UnknownSignatureFullSync ==
    ( /\ lastOp.op = "fetch_from"
      /\ Len(lastOp.message.Signature) > 0
      /\ lastOp.message.Signature \notin StoredSignatures(table) )
        => reply = FetchMessages(table)

C3_Witness ==
    /\ lastOp.op = "fetch_from"
    /\ Len(lastOp.message.Signature) > 0
    /\ lastOp.message.Signature \notin StoredSignatures(table)
    /\ purged
    /\ \E k \in 1..Len(applied) : applied[k].Signature = lastOp.message.Signature
    /\ Len(reply) >= 1

\* C4: FetchMessagesFrom with an empty signature returns what FetchMessages
\* returns, in every reachable state of the store.
C4_EmptySignatureFullSync ==
    (lastOp.op = "fetch_from" /\ Len(lastOp.message.Signature) = 0)
        => reply = FetchMessages(table)

C4_Witness ==
    /\ lastOp.op = "fetch_from"
    /\ Len(lastOp.message.Signature) = 0
    /\ Len(reply) >= 2

\* C5: AddMessage of a message with an empty signature leaves the store
\* unchanged: MessagesCount and FetchMessages are the same before and after,
\* whatever the ciphertext.
C5_EmptySignatureDropped ==
    [][ (IsAddStep /\ Len(lastOp'.message.Signature) = 0)
           => /\ MessagesCount(table') = MessagesCount(table)
              /\ FetchMessages(table') = FetchMessages(table) ]_vars

C5_Witness ==
    /\ lastOp.op = "add"
    /\ Len(lastOp.message.Signature) = 0
    /\ Len(lastOp.message.Ciphertext) > 0
    /\ lastOp.outcome = "dropped"
    /\ MessagesCount(table) >= 1

\* C6: AddMessage of a message whose signature is already stored changes
\* nothing (the stored ciphertext stays the first one); AddMessage of a
\* non-empty signature that is not stored makes the count grow by exactly 1.
C6_DuplicateSignatureRejected ==
    [][ (IsAddStep /\ Len(lastOp'.message.Signature) > 0)
           => IF lastOp'.message.Signature \in StoredSignatures(table)
              THEN /\ MessagesCount(table') = MessagesCount(table)
                   /\ FetchMessages(table') = FetchMessages(table)
              ELSE MessagesCount(table') = MessagesCount(table) + 1 ]_vars

C6_Witness ==
    /\ lastOp.op = "add"
    /\ lastOp.outcome = "rejected"
    /\ \E i \in 1..Len(FetchMessages(table)) :
          /\ FetchMessages(table)[i].Signature = lastOp.message.Signature
          /\ FetchMessages(table)[i].Ciphertext # lastOp.message.Ciphertext

\* C7: in every reachable state no two stored messages share a signature and
\* no stored message has an empty signature.
C7_SignaturesUniqueAndNonEmpty ==
    LET messages == FetchMessages(table)
    IN  /\ Len(messages) = MessagesCount(table)
        /\ \A i, j \in 1..Len(messages) :
              messages[i].Signature = messages[j].Signature => i = j
        /\ \A i \in 1..Len(messages) : Len(messages[i].Signature) > 0

C7_Witness ==
    /\ MessagesCount(table) = 1
    /\ messageCounter = 3
    /\ <<>> \in submitted
    /\ lastOp.outcome = "rejected"

\* C8: FetchMessages returns every stored message exactly once, by ascending
\* primary key, which is the order in which the successful AddMessage calls
\* were applied.
RowOf(db, message) ==
    CHOOSE r \in db : r.signature = EncodeToString(message.Signature)

C8_FetchAllInInsertionOrder ==
    lastOp.op = "fetch_all"
        => /\ Len(reply) = MessagesCount(table)
           /\ \A r \in table :
                 Cardinality({ i \in 1..Len(reply) :
                                 EncodeToString(reply[i].Signature) = r.signature }) = 1
           /\ \A i, j \in 1..Len(reply) :
                 i < j => RowOf(table, reply[i]).id < RowOf(table, reply[j]).id
           /\ reply = SubSeq(applied, Len(applied) - Len(reply) + 1, Len(applied))

C8_Witness ==
    /\ lastOp.op = "fetch_all"
    /\ Len(reply) = 3
    /\ reply[1].Signature = <<72, 105, 33, 0>>
    /\ reply[3].Signature = <<255>>

(***************************************************************************)
(* Producer goroutines calling AddMessage on one store at the same time.   *)
(***************************************************************************)

\* a producer enters AddMessage: incMessageCounterFn runs
AddMessageCalled(p, message) ==
    /\ pending.call[p] = <<>>
    /\ messageCounter < MaxAdds
    /\ messageCounter' = messageCounter + 1
    /\ pending' = [ call |-> [pending.call EXCEPT ![p] = <<message>>],
                    overlapped |->
                        IF \E q \in Producers :
                              /\ pending.call[q] # <<>>
                              /\ pending.call[q][1].Signature = message.Signature
                        THEN pending.overlapped \cup {message.Signature}
                        ELSE pending.overlapped ]
    /\ submitted' = submitted \cup {message.Signature}
    /\ UNCHANGED <<table, seq, applied, purged, lastOp, reply>>
    /\ UNCHANGED <<facadeVars, boardVars, configVars, metricsVars>>

\* the rest of its AddMessage: the empty-signature return, or the Exec of
\* the prepared INSERT, which the database runs as one statement at a time
AddMessageReturns(p) ==
    /\ pending.call[p] # <<>>
    /\ LET message == pending.call[p][1]
           r == AddMessage(table, seq, message)
       IN  /\ table' = r.table
           /\ seq' = r.seq
           /\ applied' = IF r.outcome = "inserted" THEN Append(applied, message) ELSE applied
           /\ lastOp' = Call("add", message, r.outcome)
    /\ pending' = [pending EXCEPT !.call[p] = <<>>]
    /\ UNCHANGED <<messageCounter, submitted, purged, reply>>
    /\ UNCHANGED <<facadeVars, boardVars, configVars, metricsVars>>

NextProducers ==
    \/ \E p \in Producers, message \in Messages : AddMessageCalled(p, message)
    \/ \E p \in Producers : AddMessageReturns(p)

SpecProducers == Init /\ [][NextProducers]_vars

NonEmpty(sigs) == { sig \in sigs : Len(sig) > 0 }

\* C32: whatever the interleaving of the producers' AddMessage calls, once
\* all of them have returned the store holds exactly one message for each
\* distinct non-empty signature submitted (one only when two overlapping
\* calls carried the same signature), in the order in which the inserts were
\* applied, and FetchMessages and every FetchMessagesFrom return that order.
C32_ConcurrentAddsSerialised ==
    (\A p \in Producers : pending.call[p] = <<>>)
        => /\ MessagesCount(table) = Cardinality(NonEmpty(submitted))
           /\ StoredSignatures(table) = NonEmpty(submitted)
           /\ Len(FetchMessages(table)) = Cardinality(NonEmpty(submitted))
           /\ [ i \in 1..Len(applied) |->
                  [ Signature  |-> applied[i].Signature ] ] =
              [ i \in 1..Len(FetchMessages(table)) |->
                  [ Signature |-> FetchMessages(table)[i].Signature ] ]
           /\ \A i \in 1..Len(applied) :
                 FetchMessagesFrom(table, applied[i].Signature) =
                    SubSeq(FetchMessages(table), i, Len(applied))

C32_Witness ==
    /\ \A p \in Producers : pending.call[p] = <<>>
    /\ pending.overlapped = { <<255>> }
    /\ messageCounter = 3
    /\ lastOp = Call("add", [Signature |-> <<255>>, Ciphertext |-> <<>>], "rejected")
    /\ Len(FetchMessages(table)) = 2
    /\ FetchMessages(table)[1] = [Signature |-> <<72, 105>>, Ciphertext |-> <<88>>]
    /\ FetchMessages(table)[2] = [Signature |-> <<255>>, Ciphertext |-> <<88>>]

\* C31: an AddMessage call only appends: the list FetchMessages returns
\* before the call is a prefix of the one it returns after it, and every row
\* stored before the call is stored unchanged (same id, signature and
\* ciphertext) after it.
C31_AddOnlyAppends ==
    [][ IsAddStep
          => LET before == FetchMessages(table)
                 after  == FetchMessages(table')
             IN  /\ Len(before) <= Len(after)
                 /\ SubSeq(after, 1, Len(before)) = before
                 /\ Len(after) <= Len(before) + 1
                 /\ \A r \in table : r \in table' ]_vars

C31_Witness ==
    /\ lastOp.op = "add"
    /\ lastOp.outcome = "inserted"
    /\ purged
    /\ seq = 3
    /\ { r.id : r \in table } = {2, 3}
    /\ Len(FetchMessages(table)) = 2


(***************************************************************************)
(* The server facade: Run, CheckStatus, Shutdown and the listener tasks.   *)
(***************************************************************************)

\* Monitors.Stop: the zero Monitors holds nil MonitorHistory interfaces, so
\* mp.Messages.Stop() faults; running samplers each take the value sent on
\* their breakChannel and exit; once they have exited nothing receives and
\* the unbuffered send blocks for ever
MonitorsStop(mp) ==
    CASE mp = "zero"    -> [metricsPack |-> mp, outcome |-> "panic"]
      [] mp = "running" -> [metricsPack |-> "stopped", outcome |-> "returned"]
      [] mp = "stopped" -> [metricsPack |-> mp, outcome |-> "blocked"]

CheckStatus_OnionOnly(s) ==
    [ running |-> s.running,
      isErr   |-> s.onionServiceStopped,
      onion   |-> s.onionServiceStopped,
      token   |-> s.tokenServiceStopped ]

\* (s.running, error): the error is non-nil when a stopped flag is set and
\* then carries both flags
CheckStatus(s) ==
    [ running |-> s.running,
      isErr   |-> s.onionServiceStopped \/ s.tokenServiceStopped,
      onion   |-> s.onionServiceStopped,
      token   |-> s.tokenServiceStopped ]

\* Run on a server whose running flag is set: return nil
RunNoop ==
    /\ trace' = [trace EXCEPT !.runs = @ + 1]
    /\ lastOp' = Call("run", NoMessage, "nil")
    /\ UNCHANGED <<server, tasks, proc, reply, storeVars, boardVars, configVars, metricsVars>>

RunStart_RunningOnError(dbOK) ==
    /\ messageCounter' = 0
    /\ IF dbOK
       THEN /\ server' = [server EXCEPT
                            !.service = "up",
                            !.metricsPack = "running",
                            !.existingMessageCount = Len(FetchMessages(table)),
                            !.tokenTapirService = "up",
                            !.running = TRUE]
            /\ tasks' = [e \in Endpoints |-> "listening"]
            /\ trace' = [trace EXCEPT !.runs = @ + 1, !.starts = @ + 1,
                                      !.opens = @ + 1, !.spawns = @ + 2]
            /\ lastOp' = Call("run", NoMessage, "nil")
       ELSE /\ server' = [server EXCEPT !.service = "up", !.metricsPack = "running",
                                       !.running = TRUE]
            /\ trace' = [trace EXCEPT !.runs = @ + 1, !.starts = @ + 1]
            /\ lastOp' = Call("run", NoMessage, "error")
            /\ UNCHANGED tasks
    /\ UNCHANGED <<table, seq, submitted, applied, purged, pending, proc, reply, boardVars, configVars, metricsVars>>

\* the rest of Run: the onion service, the metrics, the message store (dbOK
\* tells whether it can be opened), the session baseline, the token service,
\* the two listener goroutines, and running = true
RunStart(dbOK) ==
    /\ messageCounter' = 0
    /\ IF dbOK
       THEN /\ server' = [server EXCEPT
                            !.service = "up",
                            !.metricsPack = "running",
                            !.existingMessageCount = Len(FetchMessages(table)),
                            !.tokenTapirService = "up",
                            !.running = TRUE]
            /\ tasks' = [e \in Endpoints |-> "listening"]
            /\ trace' = [trace EXCEPT !.runs = @ + 1, !.starts = @ + 1,
                                      !.opens = @ + 1, !.spawns = @ + 2]
            /\ lastOp' = Call("run", NoMessage, "nil")
       ELSE /\ server' = [server EXCEPT !.service = "up", !.metricsPack = "running"]
            /\ trace' = [trace EXCEPT !.runs = @ + 1, !.starts = @ + 1]
            /\ lastOp' = Call("run", NoMessage, "error")
            /\ UNCHANGED tasks
    /\ UNCHANGED <<table, seq, submitted, applied, purged, pending, proc, reply, boardVars, configVars, metricsVars>>

Run_NoRunningCheck(dbOK) ==
    /\ proc = "ok"
    /\ server.lock = "free"
    /\ trace.runs < MaxRuns
    /\ RunStart(dbOK)

\* Run holds the write lock from its first statement to its return
Run(dbOK) ==
    /\ proc = "ok"
    /\ server.lock = "free"
    /\ trace.runs < MaxRuns
    /\ IF server.running THEN RunNoop ELSE RunStart(dbOK)

\* CheckStatus, first statement: s.lock.RLock()
CheckStatusRLock ==
    /\ proc = "ok"
    /\ server.lock = "free"
    /\ server' = [server EXCEPT !.lock = "read"]
    /\ UNCHANGED <<tasks, proc, trace, lastOp, reply, storeVars, boardVars, configVars, metricsVars>>

\* CheckStatus, the rest: the flags are read, the deferred RUnlock runs
CallCheckStatus ==
    /\ proc = "ok"
    /\ server.lock = "read"
    /\ server' = [server EXCEPT !.lock = "free"]
    /\ reply' = CheckStatus(server)
    /\ lastOp' = Call("check_status", NoMessage, "ok")
    /\ UNCHANGED <<tasks, proc, trace, storeVars, boardVars, configVars, metricsVars>>

\* Shutdown takes the write lock and defers its release: a nil service
\* faults; otherwise both services are shut down (which closes their
\* connections), the metrics are stopped and, when that returns, running is
\* set to true; while Monitors.Stop does not return the lock stays held
Shutdown ==
    /\ proc = "ok"
    /\ server.lock = "free"
    /\ IF server.service = "nil"
       THEN /\ proc' = "panic"
            /\ lastOp' = Call("shutdown", NoMessage, "panic")
            /\ UNCHANGED <<server, conns>>
       ELSE IF server.tokenTapirService = "nil"
       THEN /\ server' = [server EXCEPT !.service = "shutdown"]
            /\ proc' = "panic"
            /\ lastOp' = Call("shutdown", NoMessage, "panic")
            /\ conns' = [conns EXCEPT !["onion"].open = FALSE, !["onion"].caps = {}]
       ELSE LET m == MonitorsStop(server.metricsPack)
            IN  /\ server' = [server EXCEPT
                                !.service = "shutdown",
                                !.tokenTapirService = "shutdown",
                                !.metricsPack = m.metricsPack,
                                !.running = IF m.outcome = "returned" THEN TRUE ELSE @,
                                !.lock = IF m.outcome = "blocked" THEN "write" ELSE @]
                /\ proc' = IF m.outcome = "returned" THEN "ok" ELSE m.outcome
                /\ lastOp' = Call("shutdown", NoMessage, m.outcome)
                /\ conns' = [e \in Endpoints |->
                               [conns[e] EXCEPT !.open = FALSE, !.caps = {}]]
    /\ UNCHANGED <<tasks, trace, reply, storeVars, configVars, metricsVars>>

\* Listen returns: the service was shut down, or the listener fell
ListenReturns(e) ==
    /\ proc # "panic"
    /\ tasks[e] = "listening"
    /\ tasks' = [tasks EXCEPT ![e] = "returned"]
    /\ lastOp' = Call("listen_returned", NoMessage, e)
    /\ UNCHANGED <<server, proc, trace, reply, storeVars, boardVars, configVars, metricsVars>>

TaskSetsStopped_FlagNotSet(e) ==
    /\ proc # "panic"
    /\ tasks[e] = "returned"
    /\ tasks' = [tasks EXCEPT ![e] = "done"]
    /\ lastOp' = Call("task_exit", NoMessage, e)
    /\ UNCHANGED <<server, proc, trace, reply, storeVars, boardVars, configVars, metricsVars>>

\* the goroutine's last statement: s.tokenServiceStopped = true, resp.
\* s.onionServiceStopped = true, an assignment made without taking s.lock
TaskSetsStopped(e) ==
    /\ proc # "panic"
    /\ tasks[e] = "returned"
    /\ tasks' = [tasks EXCEPT ![e] = "done"]
    /\ server' = IF e = "token" THEN [server EXCEPT !.tokenServiceStopped = TRUE]
                                ELSE [server EXCEPT !.onionServiceStopped = TRUE]
    /\ lastOp' = Call("task_exit", NoMessage, e)
    /\ UNCHANGED <<proc, trace, reply, storeVars, boardVars, configVars, metricsVars>>

NextFacade ==
    \/ \E dbOK \in BOOLEAN : Run(dbOK)
    \/ CheckStatusRLock
    \/ CallCheckStatus
    \/ Shutdown
    \/ \E e \in Endpoints : ListenReturns(e)
    \/ \E e \in Endpoints : TaskSetsStopped(e)


(***************************************************************************)
(* The two endpoints: application chains, capabilities and requests.       *)
(***************************************************************************)
SuccessfulProofOfWorkCapability == "SuccessfulProofOfWork"

HasTokensCapability == "HasTokens"

\* the messages posted to the board
PostInputs ==
    { [Signature |-> <<255>>, Ciphertext |-> <<88>>],
      [Signature |-> <<>>, Ciphertext |-> <<88>>] }

SpendResults == {"ok", "TokenInvalid", "TokenAlreadySpent"}

\* new(ApplicationChain).ChainApplication(ProofOfWorkApplication, ...)
\*                      .ChainApplication(tokenApplication, ...)
powTokenApp_NoProofOfWork ==
    << [app |-> "TokenApplication", emits |-> HasTokensCapability] >>

powTokenApp ==
    << [app |-> "ProofOfWorkApplication", emits |-> SuccessfulProofOfWorkCapability],
       [app |-> "TokenApplication", emits |-> HasTokensCapability] >>

\* the application the board listener serves: the proof-of-work and token
\* stages followed by the token board
NewTokenBoardServer ==
    powTokenApp \o << [app |-> "TokenBoardServer", emits |-> "none"] >>

ChainOf(e) == IF e = "token" THEN powTokenApp ELSE NewTokenBoardServer

\* a chained application serves a connection once the connection holds the
\* capability emitted by every application chained before it
Serves(chain, caps, app) ==
    \E i \in 1..Len(chain) :
        /\ chain[i].app = app
        /\ \A j \in 1..(i - 1) : chain[j].emits \in caps

\* the application a request kind is addressed to
HandlerOf(kind) ==
    IF kind \in {"issue", "spend"} THEN "TokenApplication" ELSE "TokenBoardServer"

\* the token request of an endpoint: issue on the token endpoint, spend on
\* the board endpoint
TokenRequestOf(e) == IF e = "token" THEN "issue" ELSE "spend"

\* the board's Post handler: the message is added and acknowledged when the
\* token was spent, and the spend error is returned otherwise
PostMessage_AddFirst(db, s, message, spend) ==
    LET r == AddMessage(db, s, message)
    IN  [ table |-> r.table, seq |-> r.seq, added |-> TRUE,
          outcome |-> r.outcome, ack |-> (spend = "ok"), spend |-> spend ]

PostMessage(db, s, message, spend) ==
    IF spend = "ok"
    THEN LET r == AddMessage(db, s, message)
         IN  [ table |-> r.table, seq |-> r.seq, added |-> TRUE,
               outcome |-> r.outcome, ack |-> TRUE, spend |-> spend ]
    ELSE [ table |-> db, seq |-> s, added |-> FALSE,
           outcome |-> "none", ack |-> FALSE, spend |-> spend ]

Listening(e) ==
    /\ proc = "ok"
    /\ tasks[e] = "listening"
    /\ (IF e = "token" THEN server.tokenTapirService ELSE server.service) = "up"

Connect(e) ==
    /\ Listening(e)
    /\ ~conns[e].open
    /\ conns' = [conns EXCEPT ![e] = [@ EXCEPT !.open = TRUE, !.caps = {}]]
    /\ lastOp' = Call("connect", NoMessage, e)
    /\ UNCHANGED <<facadeVars, storeVars, reply, configVars, metricsVars>>

\* a request that no unlocked application handles is a protocol error: the
\* connection is dropped
Drop(e, kind) ==
    /\ conns' = [conns EXCEPT ![e] = [@ EXCEPT !.open = FALSE, !.caps = {},
                                                 !.requests = @ + 1]]
    /\ lastOp' = Call(kind, NoMessage, "dropped")
    /\ UNCHANGED <<facadeVars, storeVars, reply, configVars, metricsVars>>

\* the peer presents a solution of the proof-of-work challenge
SolveProofOfWork(e, valid) ==
    /\ Listening(e)
    /\ conns[e].open
    /\ SuccessfulProofOfWorkCapability \notin conns[e].caps
    /\ IF valid /\ Serves(ChainOf(e), conns[e].caps, "ProofOfWorkApplication")
       THEN /\ conns' = [conns EXCEPT ![e].caps = @ \cup {SuccessfulProofOfWorkCapability}]
            /\ lastOp' = Call("pow", NoMessage, "granted")
       ELSE /\ conns' = [conns EXCEPT ![e] = [@ EXCEPT !.open = FALSE, !.caps = {}]]
            /\ lastOp' = Call("pow", NoMessage, "dropped")
    /\ UNCHANGED <<facadeVars, storeVars, reply, configVars, metricsVars>>

\* issue (token endpoint) or spend (board endpoint)
TokenRequest(e, result) ==
    /\ Listening(e)
    /\ conns[e].open
    /\ conns[e].requests < MaxRequests
    /\ IF Serves(ChainOf(e), conns[e].caps, HandlerOf(TokenRequestOf(e)))
       THEN /\ conns' = [conns EXCEPT ![e] =
                           [@ EXCEPT !.requests = @ + 1,
                                     !.caps = IF result = "ok"
                                              THEN @ \cup {HasTokensCapability} ELSE @]]
            /\ lastOp' = Call(TokenRequestOf(e), NoMessage, result)
            /\ UNCHANGED <<facadeVars, storeVars, reply, configVars, metricsVars>>
       ELSE Drop(e, TokenRequestOf(e))

Post(message, spend) ==
    /\ Listening("onion")
    /\ conns["onion"].open
    /\ conns["onion"].requests < MaxRequests
    /\ IF Serves(ChainOf("onion"), conns["onion"].caps, HandlerOf("post"))
       THEN LET r == PostMessage(table, seq, message, spend)
            IN  /\ table' = r.table
                /\ seq' = r.seq
                /\ messageCounter' = IF r.added THEN messageCounter + 1 ELSE messageCounter
                /\ submitted' = IF r.added THEN submitted \cup {message.Signature}
                                           ELSE submitted
                /\ applied' = IF r.outcome = "inserted" THEN Append(applied, message)
                                                        ELSE applied
                /\ reply' = [ack |-> r.ack, spend |-> r.spend]
                /\ lastOp' = Call("post", message, r.outcome)
                /\ conns' = [conns EXCEPT !["onion"].requests = @ + 1]
                /\ UNCHANGED <<facadeVars, purged, pending, configVars, metricsVars>>
       ELSE Drop("onion", "post")

Replay(signature) ==
    /\ Listening("onion")
    /\ conns["onion"].open
    /\ conns["onion"].requests < MaxRequests
    /\ IF Serves(ChainOf("onion"), conns["onion"].caps, HandlerOf("replay"))
       THEN /\ reply' = FetchMessagesFrom(table, signature)
            /\ lastOp' = Call("replay", [Signature |-> signature, Ciphertext |-> <<>>], "ok")
            /\ conns' = [conns EXCEPT !["onion"].requests = @ + 1]
            /\ UNCHANGED <<facadeVars, storeVars, configVars, metricsVars>>
       ELSE Drop("onion", "replay")

NextBoard ==
    \/ \E e \in Endpoints : Connect(e)
    \/ \E e \in Endpoints, valid \in BOOLEAN : SolveProofOfWork(e, valid)
    \/ \E e \in Endpoints, result \in SpendResults : TokenRequest(e, result)
    \/ \E message \in PostInputs, spend \in SpendResults : Post(message, spend)
    \/ \E signature \in {<<>>, <<255>>} : Replay(signature)

NextServer == NextFacade \/ NextBoard

SpecServer == Init /\ [][NextServer]_vars


(***************************************************************************)
(* Properties of the board, the endpoints and the server lifecycle.        *)
(***************************************************************************)
\* a token or board request the endpoint e handled in this step
IsAcceptedRequest(e) ==
    /\ conns'[e].requests = conns[e].requests + 1
    /\ lastOp'.outcome # "dropped"

IsRunStep == trace'.runs = trace.runs + 1

\* C11: a Post handled by the board is acknowledged exactly when its token was
\* spent successfully; after a failed spend the message store is unchanged,
\* and after a successful spend a message with a new non-empty signature is
\* the last message of the store.
C11_PostAppendsOnlyOnSuccessfulSpend ==
    [][ (IsAcceptedRequest("onion") /\ lastOp'.op = "post")
            => /\ reply'.ack <=> (reply'.spend = "ok")
               /\ reply'.spend # "ok"
                    => /\ table' = table
                       /\ seq' = seq
                       /\ FetchMessages(table') = FetchMessages(table)
               /\ ( /\ reply'.spend = "ok"
                    /\ lastOp'.message.Signature # <<>>
                    /\ lastOp'.message.Signature \notin StoredSignatures(table) )
                    => FetchMessages(table') =
                           Append(FetchMessages(table), lastOp'.message) ]_vars

C11_Witness ==
    /\ lastOp.op = "post"
    /\ lastOp.outcome = "inserted"
    /\ reply.ack
    /\ reply.spend = "ok"
    /\ FetchMessages(table) = << lastOp.message >>

\* C12: an endpoint handles a token or board request only on a connection
\* that holds the proof-of-work capability, the board handles Post and Replay
\* only on a connection that holds the proof-of-work and the token capability
\* in that order of the chain, and a connection gains the proof-of-work
\* capability only by a valid solution.
C12_NoRequestBeforeProofOfWork ==
    [][ \A e \in Endpoints :
          /\ IsAcceptedRequest(e)
                => SuccessfulProofOfWorkCapability \in conns[e].caps
          /\ (IsAcceptedRequest(e) /\ lastOp'.op \in {"post", "replay"})
                => /\ e = "onion"
                   /\ {SuccessfulProofOfWorkCapability, HasTokensCapability}
                          \subseteq conns[e].caps
          /\ (HasTokensCapability \in conns'[e].caps)
                => SuccessfulProofOfWorkCapability \in conns'[e].caps
          /\ ( /\ SuccessfulProofOfWorkCapability \in conns'[e].caps
               /\ SuccessfulProofOfWorkCapability \notin conns[e].caps )
                => lastOp' = Call("pow", NoMessage, "granted") ]_vars

C12_Witness ==
    /\ lastOp.op = "issue"
    /\ lastOp.outcome = "ok"
    /\ conns["token"].open
    /\ conns["token"].caps = {SuccessfulProofOfWorkCapability, HasTokensCapability}
    /\ conns["onion"].requests > 0
    /\ ~conns["onion"].open

\* C13: a call of Run on a server whose running flag is set returns nil and
\* changes nothing: the server's fields, the listener tasks, the store and
\* the metrics are as before, no task is spawned and no store is opened.
C13_RunIdempotentWhileRunning ==
    [][ (IsRunStep /\ server.running)
            => /\ lastOp' = Call("run", NoMessage, "nil")
               /\ server' = server
               /\ tasks' = tasks
               /\ trace'.spawns = trace.spawns
               /\ trace'.starts = trace.starts
               /\ trace'.opens = trace.opens
               /\ messageCounter' = messageCounter
               /\ table' = table
               /\ conns' = conns ]_vars

C13_Witness ==
    /\ lastOp = Call("run", NoMessage, "nil")
    /\ trace.runs = 2
    /\ trace.starts = 1
    /\ trace.spawns = 2
    /\ server.running
    /\ server.metricsPack = "running"
    /\ \A e \in Endpoints : tasks[e] = "listening"

C15_ShutdownStopsServer ==
    (lastOp.op = "shutdown" /\ lastOp.outcome = "returned")
        => ~CheckStatus(server).running

\* C16: Shutdown returns normally in every lifecycle state, a server that
\* was never Run included.
C16_ShutdownAlwaysReturns ==
    lastOp.op = "shutdown" => lastOp.outcome = "returned"

\* the facade alone, with the scheduling Go guarantees: a goroutine whose
\* Listen has returned runs its next statement
SpecFacadeFair ==
    /\ Init
    /\ [][NextFacade]_vars
    /\ \A e \in Endpoints : WF_vars(TaskSetsStopped(e))

SpecFacade == Init /\ [][NextFacade]_vars

StoppedFlag(s, e) ==
    IF e = "token" THEN s.tokenServiceStopped ELSE s.onionServiceStopped

\* C26: running, onionServiceStopped and tokenServiceStopped are read and
\* written only under the facade's lock: while the lock is held by a
\* CheckStatus in progress (or by any other holder) no step of another
\* goroutine changes one of them.
C26_FlagsChangeOnlyUnderLock ==
    [][ server.lock # "free"
            => /\ server'.running = server.running
               /\ server'.onionServiceStopped = server.onionServiceStopped
               /\ server'.tokenServiceStopped = server.tokenServiceStopped ]_vars

\* C27: once the Listen of an endpoint's task has returned, the task sets
\* the endpoint's stopped flag, and from then on the flag stays set and
\* CheckStatus returns an error that carries the flag of that endpoint.
C27_FallenListenerReported ==
    \A e \in Endpoints :
        (tasks[e] = "returned")
            ~> [](/\ StoppedFlag(server, e)
                  /\ server.running
                  /\ CheckStatus(server).isErr
                  /\ CheckStatus(server)[e])

C27_Witness ==
    /\ tasks["onion"] = "done"
    /\ tasks["token"] = "listening"
    /\ lastOp.op = "check_status"
    /\ reply.isErr
    /\ reply.onion
    /\ ~reply.token

\* C28: a Run that returns nil on a server that was shut down starts the
\* server again: both listener tasks are spawned and listening, and
\* CheckStatus returns (true, no error).
C28_RunAfterShutdownRestarts ==
    [][ (IsRunStep /\ server.service = "shutdown" /\ lastOp'.outcome = "nil")
            => /\ trace'.spawns = trace.spawns + 2
               /\ \A e \in Endpoints : tasks'[e] = "listening"
               /\ CheckStatus(server').running
               /\ ~CheckStatus(server').isErr ]_vars

\* C29: every call of Shutdown terminates and releases the facade's lock,
\* the second call on the same server included: no call stays blocked in
\* the stop of a sampler, and the write lock is never left held.
C29_ShutdownTerminatesAndUnlocks ==
    /\ proc # "blocked"
    /\ server.lock # "write"


(***************************************************************************)
(* The server configuration: serverConfig.go, Delete and HashName of the   *)
(* server, and the servers manager.                                        *)
(***************************************************************************)
AttrAutostart == "autostart"

AttrDescription == "description"

DefaultPassword == "be gay do crime"

TestServerDesc == "a test Server"

Passwords == {DefaultPassword, "another password"}

AttrVals == {TestServerDesc}

\* the salts InitV1Directory may draw
Salts == {"salt1"}

\* len(namesSmall)
NamesSmallLen == 456

\* the zero value of the key field ([32]byte)
ZeroKey == <<>>

\* v1.CreateKey(password, salt): the key derived from a password and a salt,
\* one key for each pair
CreateKey(password, salt) == <<password, salt>>

\* the Attributes map: a function from the keys present to their values
SetKey(attributes, key, val) ==
    [k \in (DOMAIN attributes) \cup {key} |-> IF k = key THEN val ELSE attributes[k]]

\* the map json.Unmarshal leaves: the entries of the file are stored into
\* the existing map
MergeKeys(attributes, read) ==
    [k \in (DOMAIN attributes) \cup (DOMAIN read) |->
        IF k \in DOMAIN read THEN read[k] ELSE attributes[k]]

\* initDefaultConfig: new random identities and token root, autostart off;
\* key is the zero key and there is no encFileStore.  MaxBufferLines and
\* ServerReporting are constants of every config and are left out.  origin
\* is a history field: how the Config came to be.
initDefaultConfig(configDir, encrypted, fresh) ==
    [ ConfigDir             |-> configDir,
      Encrypted             |-> encrypted,
      key                   |-> ZeroKey,
      encFileStore          |-> <<>>,
      PublicKey             |-> fresh.PublicKey,
      PrivateKey            |-> fresh.PrivateKey,
      TokenServerPublicKey  |-> fresh.TokenServerPublicKey,
      TokenServerPrivateKey |-> fresh.TokenServerPrivateKey,
      TokenServiceK         |-> fresh.TokenServiceK,
      Attributes            |-> [k \in {AttrAutostart} |-> "false"],
      origin                |-> "default" ]

\* json.MarshalIndent(config): the exported fields without the json:"-" ones
Marshal(config) ==
    [ PublicKey             |-> config.PublicKey,
      PrivateKey            |-> config.PrivateKey,
      TokenServerPublicKey  |-> config.TokenServerPublicKey,
      TokenServerPrivateKey |-> config.TokenServerPrivateKey,
      TokenServiceK         |-> config.TokenServiceK,
      Attributes            |-> config.Attributes ]

\* json.Unmarshal(raw, &config): the fields of the file overwrite those of
\* the default config, ConfigDir, Encrypted and key are not touched
Unmarshal_KeepsDefaults(raw, config) ==
    [config EXCEPT !.Attributes = MergeKeys(@, raw.Attributes)]

Unmarshal(raw, config) ==
    [config EXCEPT
        !.PublicKey             = raw.PublicKey,
        !.PrivateKey            = raw.PrivateKey,
        !.TokenServerPublicKey  = raw.TokenServerPublicKey,
        !.TokenServerPrivateKey = raw.TokenServerPrivateKey,
        !.TokenServiceK         = raw.TokenServiceK,
        !.Attributes            = MergeKeys(@, raw.Attributes)]

HasFile(dir) == dir.exists /\ dir.file # <<>>

\* Save: the file is written through the encFileStore (under its key) when
\* the config is encrypted and as plain JSON otherwise; the write fails when
\* the directory is gone
Save_Nothing(config, dir) == dir

Save(config, dir) ==
    IF ~dir.exists
    THEN dir
    ELSE [dir EXCEPT !.file =
            << [ key   |-> IF config.Encrypted THEN config.encFileStore ELSE <<>>,
                 bytes |-> Marshal(config) ] >>]

\* CreateConfig: make the directory, and for an encrypted config its SALT
\* file; keep the derived key in the config; save
CreateConfig(configDir, encrypted, password, fresh, salt, dir) ==
    LET made   == IF dir.exists THEN dir ELSE [NoDir EXCEPT !.exists = TRUE]
        salted == IF encrypted THEN [made EXCEPT !.salt = <<salt>>] ELSE made
        key    == CreateKey(password, salt)
        config == IF encrypted
                  THEN [initDefaultConfig(configDir, encrypted, fresh)
                           EXCEPT !.key = key, !.encFileStore = <<key>>,
                                  !.origin = "created"]
                  ELSE [initDefaultConfig(configDir, encrypted, fresh)
                           EXCEPT !.origin = "created"]
    IN  [err |-> "nil", config |-> config, dir |-> Save(config, salted)]

LoadFailed_FileLost(dir) ==
    [err |-> "error", config |-> NoConfig, dir |-> [dir EXCEPT !.file = <<>>]]

\* LoadConfig: read the file (decrypting it with the key derived from the
\* password and the SALT file), unmarshal it over a default config, save.
\* A failure returns the error and writes nothing.  The key field of the
\* returned config is never assigned.
LoadFailed(dir) == [err |-> "error", config |-> NoConfig, dir |-> dir]

LoadConfig(configDir, encrypted, password, fresh, dir) ==
    LET default == initDefaultConfig(configDir, encrypted, fresh)
    IN  IF encrypted
        THEN IF ~dir.exists \/ dir.salt = <<>>
             THEN LoadFailed(dir)
             ELSE LET key == CreateKey(password, dir.salt[1])
                  IN  IF dir.file = <<>> \/ dir.file[1].key # <<key>>
                      THEN LoadFailed(dir)
                      ELSE LET config == [Unmarshal(dir.file[1].bytes, default)
                                             EXCEPT !.encFileStore = <<key>>,
                                                    !.origin = "loaded"]
                           IN  [err |-> "nil", config |-> config,
                                dir |-> Save(config, dir)]
        ELSE IF ~HasFile(dir) \/ dir.file[1].key # <<>>
             THEN LoadFailed(dir)
             ELSE LET config == [Unmarshal(dir.file[1].bytes, default)
                                    EXCEPT !.origin = "loaded"]
                  IN  [err |-> "nil", config |-> config, dir |-> Save(config, dir)]

LoadCreateDefaultConfigFile(configDir, encrypted, password, fresh, salt, dir) ==
    IF ~HasFile(dir)
    THEN CreateConfig(configDir, encrypted, password, fresh, salt, dir)
    ELSE LoadConfig(configDir, encrypted, password, fresh, dir)

\* CheckPassword: false when the SALT file cannot be read
CheckPassword_AlwaysTrue(config, checkpass, dir) == TRUE

CheckPassword(config, checkpass, dir) ==
    IF ~dir.exists \/ dir.salt = <<>>
    THEN FALSE
    ELSE CreateKey(checkpass, dir.salt[1]) = config.key

\* server.Delete
Delete(config, password, dir) ==
    IF config.Encrypted /\ ~CheckPassword(config, password, dir)
    THEN [err |-> "Cannot delete server, passwords do not match", dir |-> dir]
    ELSE [err |-> "nil", dir |-> NoDir]

GetAttribute(config, key) ==
    IF key \in DOMAIN config.Attributes THEN config.Attributes[key] ELSE ""

Onion(config) == GetTorV3Hostname(config.PublicKey)

\* int(binary.BigEndian.Uint32(bytes[i*4:(i+1)*4])) % len(namesSmall), for a
\* 64 bit int; the remainder is taken byte by byte to stay within the
\* integers of the model checker
Uint32Mod(bytes, i, m) ==
    (((((((bytes[4 * i + 1] % m) * 256 + bytes[4 * i + 2]) % m) * 256
            + bytes[4 * i + 3]) % m) * 256) + bytes[4 * i + 4]) % m

\* HashName: the eight indices into namesSmall whose words are joined
HashName(config) ==
    [i \in 1..8 |-> Uint32Mod(config.PublicKey, i - 1, NamesSmallLen)]


\* SetAttribute: store the value in the map, then Save (its error is dropped)
SetAttribute_NoSave(config, key, val, dir) ==
    [ config |-> [config EXCEPT !.Attributes = SetKey(@, key, val)], dir |-> dir ]

SetAttribute(config, key, val, dir) ==
    LET set == [config EXCEPT !.Attributes = SetKey(@, key, val)]
    IN  [ config |-> set, dir |-> Save(set, dir) ]

\* the entries of a directory scan, in the order of the scan
RECURSIVE ListOf(_)
ListOf(S) ==
    IF S = {}
    THEN <<>>
    ELSE LET x == CHOOSE y \in S : TRUE
         IN  <<x>> \o ListOf(S \ {x})

\* main: LoadCreateDefaultConfigFile(configDir, ServerConfigFile, false, "")
AppLoadCreate(fresh) ==
    /\ LET r == LoadCreateDefaultConfigFile(HomeDir, FALSE, "", fresh, "", disk[HomeDir])
       IN  /\ mem' = [mem EXCEPT ![HomeDir] = IF r.err = "nil" THEN r.config ELSE @]
           /\ disk' = [disk EXCEPT ![HomeDir] = r.dir]
           /\ reply' = [dir |-> HomeDir, password |-> ""]
           /\ lastOp' = Call("load_create", NoMessage, r.err)
    /\ UNCHANGED <<setters, storeVars, facadeVars, boardVars, metricsVars>>

\* servers.CreateServer(password): a new encrypted config in the directory
\* named by the onion address of its new key, registered with the manager
CreateServer(password, fresh, salt) ==
    LET d == GetTorV3Hostname(fresh.PublicKey)
        r == CreateConfig(d, TRUE, password, fresh, salt, disk[d])
    IN  /\ ~disk[d].exists
        /\ mem' = [mem EXCEPT ![d] = r.config]
        /\ disk' = [disk EXCEPT ![d] = r.dir]
        /\ reply' = [dir |-> d, password |-> password]
        /\ lastOp' = Call("create", NoMessage, r.err)
        /\ UNCHANGED <<setters, storeVars, facadeVars, boardVars, metricsVars>>

\* NewServers(acn, directory): a new manager with no server registered
NewServers ==
    /\ \E d \in ServerDirs : mem[d] # NoConfig
    /\ mem' = [d \in Dirs |-> IF d \in ServerDirs THEN NoConfig ELSE mem[d]]
    /\ reply' = <<>>
    /\ lastOp' = Call("new_servers", NoMessage, "ok")
    /\ UNCHANGED <<disk, setters, storeVars, facadeVars, boardVars, metricsVars>>

\* servers.LoadServers(password): every directory named by an onion address
\* whose encrypted config loads with the password is registered; the onions
\* of the loaded servers are returned
LoadServers(password, fresh) ==
    LET r == [d \in ServerDirs |-> LoadConfig(d, TRUE, password, fresh, disk[d])]
        loaded == { d \in ServerDirs : disk[d].exists /\ r[d].err = "nil" }
    IN  /\ \E d \in ServerDirs : disk[d].exists
        /\ mem' = [d \in Dirs |-> IF d \in loaded THEN r[d].config ELSE mem[d]]
        /\ disk' = [d \in Dirs |-> IF d \in loaded THEN r[d].dir ELSE disk[d]]
        /\ reply' = [ password |-> password,
                      onions   |-> [i \in 1..Cardinality(loaded) |->
                                       Onion(r[ListOf(loaded)[i]].config)] ]
        /\ lastOp' = Call("load", NoMessage, "nil")
        /\ UNCHANGED <<setters, storeVars, facadeVars, boardVars, metricsVars>>

\* servers.GetServer(onion)
GetServer(onion) ==
    /\ reply' = [onion |-> onion, found |-> mem[onion] # NoConfig]
    /\ lastOp' = Call("get", NoMessage, "ok")
    /\ UNCHANGED <<configVars, storeVars, facadeVars, boardVars, metricsVars>>

CallSetAttribute(d, val) ==
    /\ mem[d] # NoConfig
    /\ LET r == SetAttribute(mem[d], AttrDescription, val, disk[d])
       IN  /\ mem' = [mem EXCEPT ![d] = r.config]
           /\ disk' = [disk EXCEPT ![d] = r.dir]
    /\ reply' = [dir |-> d, key |-> AttrDescription, val |-> val]
    /\ lastOp' = Call("set_attribute", NoMessage, "ok")
    /\ UNCHANGED <<setters, storeVars, facadeVars, boardVars, metricsVars>>

CallGetAttribute(d, key) ==
    /\ mem[d] # NoConfig
    /\ reply' = [dir |-> d, key |-> key, val |-> GetAttribute(mem[d], key)]
    /\ lastOp' = Call("get_attribute", NoMessage, "ok")
    /\ UNCHANGED <<configVars, storeVars, facadeVars, boardVars, metricsVars>>

CallDelete(d, password) ==
    /\ mem[d] # NoConfig
    /\ LET r == Delete(mem[d], password, disk[d])
       IN  /\ disk' = [disk EXCEPT ![d] = r.dir]
           /\ reply' = [dir |-> d, password |-> password, err |-> r.err]
           /\ lastOp' = Call("delete", NoMessage, r.err)
    /\ UNCHANGED <<mem, setters, storeVars, facadeVars, boardVars, metricsVars>>

\* the config file of a directory is damaged (cut short, overwritten): its
\* content remains on disk, but no key decrypts it and it no longer parses
\* as JSON; the key component of a file stands for what reads it
Unreadable == <<"unreadable", "unreadable">>

DamageFile(d) ==
    /\ HasFile(disk[d])
    /\ disk[d].file[1].key # <<Unreadable>>
    /\ disk' = [disk EXCEPT ![d].file = << [@[1] EXCEPT !.key = <<Unreadable>>] >>]
    /\ reply' = [dir |-> d]
    /\ lastOp' = Call("damage", NoMessage, "ok")
    /\ UNCHANGED <<mem, setters, storeVars, facadeVars, boardVars, metricsVars>>

\* Onion() and HashName() of the server
CallHashName(d) ==
    /\ mem[d] # NoConfig
    /\ reply' = [dir |-> d, onion |-> Onion(mem[d]), hashName |-> HashName(mem[d])]
    /\ lastOp' = Call("hash_name", NoMessage, "ok")
    /\ UNCHANGED <<configVars, storeVars, facadeVars, boardVars, metricsVars>>

NextConfig ==
    \/ \E fresh \in FreshKeys : AppLoadCreate(fresh)
    \/ \E password \in Passwords, fresh \in FreshKeys, salt \in Salts :
          CreateServer(password, fresh, salt)
    \/ NewServers
    \/ \E password \in Passwords, fresh \in FreshKeys : LoadServers(password, fresh)
    \/ \E onion \in ServerDirs : GetServer(onion)
    \/ \E d \in ServerDirs, val \in AttrVals : CallSetAttribute(d, val)
    \/ \E d \in ServerDirs : CallGetAttribute(d, AttrDescription)
    \/ \E d \in Dirs, password \in Passwords : CallDelete(d, password)
    \/ \E d \in Dirs : CallHashName(d)
    \/ DamageFile(HomeDir)

SpecConfig == Init /\ [][NextConfig]_vars


(***************************************************************************)
(* Properties of the configuration and of the servers manager.             *)
(***************************************************************************)
\* the persisted keys of a config or of the contents of a config file
Identity(c) ==
    << c.PublicKey, c.PrivateKey, c.TokenServerPublicKey,
       c.TokenServerPrivateKey, c.TokenServiceK >>

\* the contents of the config file of a directory
FileOf(dir) == dir.file[1].bytes

\* the password re-derives the key the file of the directory is encrypted with
Decrypts(password, dir) ==
    /\ HasFile(dir)
    /\ dir.salt # <<>>
    /\ dir.file[1].key = << CreateKey(password, dir.salt[1]) >>

\* C17: Delete on an encrypted config fails exactly when the password does
\* not re-derive the in-memory key from the salt file, and then no directory
\* changes; otherwise (matching password, or unencrypted config) it returns
\* no error and the config directory is gone.
C17_DeleteChecksPassword ==
    [][ lastOp'.op = "delete"
          => LET d == reply'.dir
                 rederives ==
                     /\ disk[d].exists
                     /\ disk[d].salt # <<>>
                     /\ CreateKey(reply'.password, disk[d].salt[1]) = mem[d].key
             IN  /\ (reply'.err # "nil") <=> (mem[d].Encrypted /\ ~rederives)
                 /\ reply'.err # "nil" => disk' = disk
                 /\ reply'.err = "nil"
                      => /\ ~disk'[d].exists
                         /\ ~HasFile(disk'[d])
                         /\ \A e \in Dirs \ {d} : disk'[e] = disk[e]
                 /\ mem' = mem ]_vars

C17_Witness ==
    /\ lastOp.op = "delete"
    /\ reply.err # "nil"
    /\ reply.password # DefaultPassword
    /\ mem[reply.dir].origin = "created"
    /\ mem[reply.dir].key = CreateKey(DefaultPassword, "salt1")
    /\ Decrypts(DefaultPassword, disk[reply.dir])

\* C18: create(password) leaves a directory named by the new server's onion
\* whose config is encrypted under the password, and registers the server;
\* load(password) returns exactly the onions of the directories whose config
\* is encrypted under the password, each once, and registers each of them
\* under its onion, so that after a create of O a new manager's load with the
\* same password returns [O] and get(O) finds the server.
C18_ManagerRoundTrip ==
    [][ /\ lastOp'.op = "create"
            => LET d == reply'.dir
               IN  /\ Decrypts(reply'.password, disk'[d])
                   /\ mem'[d] # NoConfig
                   /\ Onion(mem'[d]) = d
                   /\ GetTorV3Hostname(FileOf(disk'[d]).PublicKey) = d
        /\ lastOp'.op = "load"
            => LET matching == { d \in ServerDirs : Decrypts(reply'.password, disk[d]) }
               IN  /\ Len(reply'.onions) = Cardinality(matching)
                   /\ { reply'.onions[i] : i \in 1..Len(reply'.onions) } = matching
                   /\ \A d \in matching : /\ mem'[d] # NoConfig
                                          /\ Onion(mem'[d]) = d
                                          /\ Decrypts(reply'.password, disk'[d]) ]_vars

C18_Witness ==
    /\ lastOp.op = "load"
    /\ reply.password = DefaultPassword
    /\ reply.onions = << GetTorV3Hostname(KeyA) >>
    /\ mem[GetTorV3Hostname(KeyA)] # NoConfig
    /\ mem[GetTorV3Hostname(KeyA)].origin = "loaded"
    /\ mem[GetTorV3Hostname(KeyB)] = NoConfig
    /\ ~disk[GetTorV3Hostname(KeyB)].exists

\* C19: after SetAttribute(key, val) GetAttribute(key) returns val, and while
\* the config directory exists a LoadConfig with the password of the config
\* succeeds and returns a config whose GetAttribute(key) is val; a load
\* returns every attribute of the file it read.
C19_SetAttributePersisted ==
    [][ /\ lastOp'.op = "set_attribute"
            => LET d == reply'.dir
               IN  /\ GetAttribute(mem'[d], reply'.key) = reply'.val
                   /\ disk'[d].exists
                        => \A password \in Passwords, fresh \in FreshKeys :
                             mem'[d].encFileStore =
                                    << CreateKey(password, disk'[d].salt[1]) >>
                                => LET r == LoadConfig(d, TRUE, password, fresh, disk'[d])
                                   IN  /\ r.err = "nil"
                                       /\ GetAttribute(r.config, reply'.key) = reply'.val
        /\ lastOp'.op = "load"
            => \A d \in ServerDirs :
                  Decrypts(reply'.password, disk[d])
                     => \A k \in DOMAIN FileOf(disk[d]).Attributes :
                           GetAttribute(mem'[d], k) = FileOf(disk[d]).Attributes[k] ]_vars

C19_Witness ==
    /\ lastOp.op = "get_attribute"
    /\ reply.key = AttrDescription
    /\ reply.val = TestServerDesc
    /\ mem[reply.dir].origin = "loaded"

\* C20: a load of an existing config file returns the service identity, the
\* token identity and the token root of the file, and the file it leaves
\* holds the same ones; Onion() and HashName() of the loaded config are those
\* of the file and of the config held before the load.
C20_LoadKeepsPersistedKeys ==
    [][ lastOp'.op \in {"load", "load_create"}
          => \A d \in Dirs :
                HasFile(disk[d])
                  => /\ HasFile(disk'[d])
                     /\ Identity(FileOf(disk'[d])) = Identity(FileOf(disk[d]))
                     /\ mem'[d] # mem[d]
                          => /\ mem'[d].origin = "loaded"
                             /\ Identity(mem'[d]) = Identity(FileOf(disk[d]))
                             /\ Onion(mem'[d]) = Onion(FileOf(disk[d]))
                             /\ HashName(mem'[d]) = HashName(FileOf(disk[d]))
                     /\ (mem[d] # NoConfig /\ mem'[d] # NoConfig)
                          => /\ Onion(mem'[d]) = Onion(mem[d])
                             /\ HashName(mem'[d]) = HashName(mem[d]) ]_vars

C20_Witness ==
    /\ lastOp.op = "hash_name"
    /\ mem[reply.dir].origin = "loaded"
    /\ reply.onion = GetTorV3Hostname(KeyA)
    /\ reply.hashName = <<420, 24, 84, 144, 204, 264, 324, 384>>
    /\ Identity(FileOf(disk[reply.dir])) = Identity(mem[reply.dir])

\* C21: a load of a config file that cannot be read, decrypted or parsed
\* returns an error (the manager's load does not return the server), hands
\* out no config, and leaves the directory as it was: the file is not
\* replaced by a default config with fresh keys.
C21_FailedLoadLeavesFile ==
    [][ /\ lastOp'.op = "load_create"
            => ( (HasFile(disk[HomeDir]) /\ disk[HomeDir].file[1].key # <<>>)
                    => /\ lastOp'.outcome = "error"
                       /\ disk' = disk
                       /\ mem' = mem )
        /\ lastOp'.op = "load"
            => \A d \in ServerDirs :
                  (disk[d].exists /\ ~Decrypts(reply'.password, disk[d]))
                     => /\ disk'[d] = disk[d]
                        /\ mem'[d] = mem[d]
                        /\ \A i \in 1..Len(reply'.onions) : reply'.onions[i] # d ]_vars

C21_Witness ==
    /\ lastOp = Call("load_create", NoMessage, "error")
    /\ mem[HomeDir] # NoConfig
    /\ disk[HomeDir].file[1].key = <<Unreadable>>
    /\ Identity(FileOf(disk[HomeDir])) = Identity(mem[HomeDir])
    /\ mem[HomeDir].origin = "loaded"


(***************************************************************************)
(* The metrics: the counter of src/metrics/monitors.go.                    *)
(***************************************************************************)
MaxCalls == 4

\* atomic.AddUint64(&c.count, uint64(unit)): one indivisible read-modify-
\* write of the count (the counts explored stay far below 2^64)
AtomicAddUint64_LoadThenStore(c, p) ==
    [c EXCEPT !.count = c.seen[p] + c.unit[p]]

AtomicAddUint64(c, p) ==
    [c EXCEPT !.count = @ + c.unit[p]]

\* int(atomic.LoadUint64(&c.count))
Count(c) == c.count

\* atomic.StoreUint64(&c.count, 0)
Reset(c) == [c EXCEPT !.count = 0, !.added = 0]

\* a goroutine calls Add(unit)
AddCalled(p, unit) ==
    /\ ctr.pc[p] = "idle"
    /\ ctr.calls < MaxCalls
    /\ ctr' = [ctr EXCEPT !.pc[p] = "adding", !.unit[p] = unit,
                          !.seen[p] = ctr.count, !.calls = @ + 1]
    /\ UNCHANGED <<mh, pack, lastOp, reply, storeVars, facadeVars, boardVars, configVars>>

\* the atomic instruction of its Add executes, and Add returns
AddReturns(p) ==
    /\ ctr.pc[p] = "adding"
    /\ ctr' = [AtomicAddUint64(ctr, p) EXCEPT !.pc[p] = "idle",
                                              !.added = @ + ctr.unit[p]]
    /\ lastOp' = Call("add", NoMessage, p)
    /\ UNCHANGED <<mh, pack, reply, storeVars, facadeVars, boardVars, configVars>>

CallCount ==
    /\ reply' = [count |-> Count(ctr)]
    /\ lastOp' = Call("count", NoMessage, "ok")
    /\ UNCHANGED <<metricsVars, storeVars, facadeVars, boardVars, configVars>>

CallReset ==
    /\ ctr' = Reset(ctr)
    /\ lastOp' = Call("reset", NoMessage, "ok")
    /\ UNCHANGED <<mh, pack, reply, storeVars, facadeVars, boardVars, configVars>>

NextCounter ==
    \/ \E p \in Producers, unit \in Units : AddCalled(p, unit)
    \/ \E p \in Producers : AddReturns(p)
    \/ CallCount
    \/ CallReset

SpecCounter == Init /\ [][NextCounter]_vars

\* C25: whatever the interleaving of the Add calls of several goroutines,
\* Count() returns the sum of the units of the Adds completed since the last
\* Reset (so, once all Adds have completed, the sum of all units added), and
\* Count() is 0 directly after a Reset.
C25_CounterSumsConcurrentAdds ==
    [][ /\ lastOp'.op = "count" => reply'.count = ctr.added
        /\ lastOp'.op = "reset" => Count(ctr') = 0
        /\ Count(ctr') = ctr'.added ]_vars

C25_Witness ==
    /\ lastOp.op = "count"
    /\ reply.count = 5
    /\ ctr.calls = 3
    /\ \A p \in Producers : ctr.pc[p] = "idle" /\ ctr.seen[p] = 0
    /\ ctr.unit["p1"] = 2


(***************************************************************************)
(* The metrics: the rings of a monitorHistory.                             *)
(***************************************************************************)
MaxRing == 3

\* the rings and values handed to rotateAndAccumulate on its own
RingValues == {0, Scale, 2 * Scale}

RingInputs == UNION { [1..n -> RingValues] : n \in 1..MaxRing }

Accumulations == {Cumulative, Average}

\* total / float64(len(array)); the totals explored are multiples of len
Quotient(total, n) == total \div n

\* for i := len(array) - 1; i > 0; i-- { array[i] = array[i-1]; total += array[i] }
\* (sequences count from 1)
RECURSIVE rotateLoop(_, _, _)
rotateLoop(array, i, total) ==
    IF i > 1
    THEN rotateLoop([array EXCEPT ![i] = array[i - 1]], i - 1, total + array[i - 1])
    ELSE [array |-> array, total |-> total]

RECURSIVE rotateLoop_AddBeforeShift(_, _, _)
rotateLoop_AddBeforeShift(array, i, total) ==
    IF i > 1
    THEN rotateLoop_AddBeforeShift([array EXCEPT ![i] = array[i - 1]], i - 1,
                                   total + array[i])
    ELSE [array |-> array, total |-> total]

rotateAndAccumulate_AddBeforeShift(array, newVal, acc) ==
    LET l == rotateLoop_AddBeforeShift(array, Len(array), 0)
        total == l.total + newVal
    IN  [ array |-> [l.array EXCEPT ![1] = newVal],
          ret   |-> IF acc = Cumulative THEN total ELSE Quotient(total, Len(array)) ]

\* rotateAndAccumulate: the array after the call, and the value returned
rotateAndAccumulate(array, newVal, acc) ==
    LET l == rotateLoop(array, Len(array), 0)
        total == l.total + newVal
    IN  [ array |-> [l.array EXCEPT ![1] = newVal],
          ret   |-> IF acc = Cumulative THEN total ELSE Quotient(total, Len(array)) ]

RECURSIVE rangeLoop(_, _, _)
rangeLoop(array, i, total) ==
    IF i <= Len(array) THEN rangeLoop(array, i + 1, total + array[i]) ELSE total

accumulate(array, acc) ==
    LET total == rangeLoop(array, 1, 0)
    IN  IF acc = Cumulative THEN total ELSE Quotient(total, Len(array))

CallRotateAndAccumulate(array, newVal, acc) ==
    /\ LET r == rotateAndAccumulate(array, newVal, acc)
       IN  reply' = [ array |-> array, newVal |-> newVal, acc |-> acc,
                      rotated |-> r.array, ret |-> r.ret ]
    /\ lastOp' = Call("rotate", NoMessage, "ok")
    /\ UNCHANGED <<metricsVars, storeVars, facadeVars, boardVars, configVars>>

NextRotate ==
    \E array \in RingInputs, newVal \in RingValues, acc \in Accumulations :
        CallRotateAndAccumulate(array, newVal, acc)

SpecRotate == Init /\ [][NextRotate]_vars

RECURSIVE SumOf(_)
SumOf(seq_) == IF seq_ = <<>> THEN 0 ELSE seq_[1] + SumOf(Tail(seq_))

\* C22: rotateAndAccumulate(ring, newVal, mode) leaves newVal at index 0 and
\* the old ring[i-1] at every index i >= 1, the length unchanged, and
\* returns the sum of the new ring (Cumulative), resp. that sum divided by
\* the ring's length (Average).
C22_RotateShiftsAndAccumulates ==
    lastOp.op = "rotate"
        => /\ Len(reply.rotated) = Len(reply.array)
           /\ reply.rotated[1] = reply.newVal
           /\ \A i \in 2..Len(reply.array) : reply.rotated[i] = reply.array[i - 1]
           /\ reply.acc = Cumulative => reply.ret = SumOf(reply.rotated)
           /\ reply.acc = Average
                => reply.ret * Len(reply.rotated) = SumOf(reply.rotated)

C22_Witness ==
    /\ lastOp.op = "rotate"
    /\ reply.array = <<Scale, 0, 2 * Scale>>
    /\ reply.newVal = 2 * Scale
    /\ reply.acc = Average
    /\ reply.rotated = <<2 * Scale, Scale, 0>>
    /\ reply.ret = Scale


(***************************************************************************)
(* The metrics: the sampler goroutine of a monitorHistory and Stop.        *)
(***************************************************************************)
MaxTicks == 62

MaxLate == 2

MaxStops == 2

Day == 24 * Hour

Week == 7 * Day

Month == 4 * Week

\* the time between two wake-ups of the sampler: time.After(time.Minute)
\* fires after a minute, or later when the process was suspended
Elapsed == {Minute, Hour, Hour + Minute, Day + Minute, Week + Minute, Month + Minute}

\* time.Now().Sub(mh.timeLast...Rotate) > threshold
rotateDue_NotStrict(now, last, threshold) == now - last >= threshold

rotateDue(now, last, threshold) == now - last > threshold

\* returnCopy: a new slice filled, under the lock, with the ring's values
returnCopy_NotFilled(slice) == Zeros(Len(slice))

returnCopy(slice) == [i \in 1..Len(slice) |-> slice[i]]

Minutes(m) == returnCopy(m.perMinutePerHour)

\* monitorThread, case <-time.After(time.Minute), between Lock and Unlock:
\* the monitor is sampled into the minute ring, then every coarser ring
\* whose threshold has passed takes the accumulation of the ring below it
monitorThreadTick_AccumulateBeforeRotation(m, now) ==
    LET acc      == m.monitorAccumulation
        sample   == monitor(m.monitor, m.calls + 1)
        minutes  == rotateAndAccumulate(m.perMinutePerHour, sample, acc)
        hourDue  == rotateDue(now, m.timeLastHourRotate, Hour)
        hours    == IF hourDue
                    THEN rotateAndAccumulate(m.perHourForDay, minutes.ret, acc).array
                    ELSE m.perHourForDay
        dayDue   == rotateDue(now, m.timeLastDayRotate, Day)
        days     == IF dayDue
                    THEN rotateAndAccumulate(m.perDayForWeek,
                                             accumulate(m.perHourForDay, acc), acc).array
                    ELSE m.perDayForWeek
        weekDue  == rotateDue(now, m.timeLastWeekRotate, Week)
        weeks    == IF weekDue
                    THEN rotateAndAccumulate(m.perWeekForMonth,
                                             accumulate(m.perDayForWeek, acc), acc).array
                    ELSE m.perWeekForMonth
        monthDue == rotateDue(now, m.timeLastMonthRotate, Month)
        months   == IF monthDue
                    THEN rotateAndAccumulate(m.perMonthForYear,
                                             accumulate(m.perWeekForMonth, acc), acc).array
                    ELSE m.perMonthForYear
        at(due, instants) == IF due THEN Append(instants, now) ELSE instants
    IN  [m EXCEPT
            !.perMinutePerHour    = minutes.array,
            !.perHourForDay       = hours,
            !.timeLastHourRotate  = IF hourDue THEN now ELSE @,
            !.perDayForWeek       = days,
            !.timeLastDayRotate   = IF dayDue THEN now ELSE @,
            !.perWeekForMonth     = weeks,
            !.timeLastWeekRotate  = IF weekDue THEN now ELSE @,
            !.perMonthForYear     = months,
            !.timeLastMonthRotate = IF monthDue THEN now ELSE @,
            !.now                 = now,
            !.calls               = @ + 1,
            !.samples             = <<sample>> \o @,
            !.rotations           = [ hour  |-> at(hourDue, @.hour),
                                      day   |-> at(dayDue, @.day),
                                      week  |-> at(weekDue, @.week),
                                      month |-> at(monthDue, @.month) ] ]

monitorThreadTick(m, now) ==
    LET acc      == m.monitorAccumulation
        sample   == monitor(m.monitor, m.calls + 1)
        minutes  == rotateAndAccumulate(m.perMinutePerHour, sample, acc)
        hourDue  == rotateDue(now, m.timeLastHourRotate, Hour)
        hours    == IF hourDue
                    THEN rotateAndAccumulate(m.perHourForDay, minutes.ret, acc).array
                    ELSE m.perHourForDay
        dayDue   == rotateDue(now, m.timeLastDayRotate, Day)
        days     == IF dayDue
                    THEN rotateAndAccumulate(m.perDayForWeek,
                                             accumulate(hours, acc), acc).array
                    ELSE m.perDayForWeek
        weekDue  == rotateDue(now, m.timeLastWeekRotate, Week)
        weeks    == IF weekDue
                    THEN rotateAndAccumulate(m.perWeekForMonth,
                                             accumulate(days, acc), acc).array
                    ELSE m.perWeekForMonth
        monthDue == rotateDue(now, m.timeLastMonthRotate, Month)
        months   == IF monthDue
                    THEN rotateAndAccumulate(m.perMonthForYear,
                                             accumulate(weeks, acc), acc).array
                    ELSE m.perMonthForYear
        at(due, instants) == IF due THEN Append(instants, now) ELSE instants
    IN  [m EXCEPT
            !.perMinutePerHour    = minutes.array,
            !.perHourForDay       = hours,
            !.timeLastHourRotate  = IF hourDue THEN now ELSE @,
            !.perDayForWeek       = days,
            !.timeLastDayRotate   = IF dayDue THEN now ELSE @,
            !.perWeekForMonth     = weeks,
            !.timeLastWeekRotate  = IF weekDue THEN now ELSE @,
            !.perMonthForYear     = months,
            !.timeLastMonthRotate = IF monthDue THEN now ELSE @,
            !.now                 = now,
            !.calls               = @ + 1,
            !.samples             = <<sample>> \o @,
            !.rotations           = [ hour  |-> at(hourDue, @.hour),
                                      day   |-> at(dayDue, @.day),
                                      week  |-> at(weekDue, @.week),
                                      month |-> at(monthDue, @.month) ] ]

\* monitorThread, case <-mh.breakChannel: the sampler returns, and the send
\* of Stop completes
monitorThreadBreak_KeepsRunning(m) == [m EXCEPT !.stopper = "returned"]

monitorThreadBreak(m) == [m EXCEPT !.sampler = "exited", !.stopper = "returned"]

CallNewMonitorHistory(a, closure) ==
    /\ mh.sampler = "none"
    /\ mh' = NewMonitorHistory(a, closure, 0)
    /\ lastOp' = Call("new_monitor_history", NoMessage, "ok")
    /\ UNCHANGED <<ctr, pack, reply, storeVars, facadeVars, boardVars, configVars>>

\* the sampler wakes up elapsed seconds after its last wake-up; only the
\* first MaxLate wake-ups come late
Tick(elapsed) ==
    /\ mh.sampler = "waiting"
    /\ mh.calls < MaxTicks
    /\ elapsed = Minute \/ mh.calls < MaxLate
    /\ mh' = monitorThreadTick(mh, mh.now + elapsed)
    /\ lastOp' = Call("tick", NoMessage, "ok")
    /\ UNCHANGED <<ctr, pack, reply, storeVars, facadeVars, boardVars, configVars>>

\* Stop: mh.breakChannel <- true, a send on an unbuffered channel
CallStop ==
    /\ mh.sampler # "none"
    /\ mh.stopper # "sending"
    /\ mh.stops < MaxStops
    /\ mh' = [mh EXCEPT !.stopper = "sending", !.stops = @ + 1]
    /\ lastOp' = Call("stop", NoMessage, "sending")
    /\ UNCHANGED <<ctr, pack, reply, storeVars, facadeVars, boardVars, configVars>>

Break ==
    /\ mh.sampler = "waiting"
    /\ mh.stopper = "sending"
    /\ mh' = monitorThreadBreak(mh)
    /\ lastOp' = Call("stop", NoMessage, "returned")
    /\ UNCHANGED <<ctr, pack, reply, storeVars, facadeVars, boardVars, configVars>>

NextMonitor ==
    \/ \E a \in Accumulations, closure \in MonitorClosures :
          CallNewMonitorHistory(a, closure)
    \/ \E elapsed \in Elapsed : Tick(elapsed)
    \/ CallStop
    \/ Break

SpecMonitor == Init /\ [][NextMonitor]_vars

\* a select whose break case is ready takes it: at the latest when the
\* sampler comes back to its select after a wake-up
SpecMonitorFair == SpecMonitor /\ WF_vars(Break)

Tiers == {"hour", "day", "week", "month"}

Threshold(t) ==
    CASE t = "hour" -> Hour [] t = "day" -> Day [] t = "week" -> Week [] t = "month" -> Month

TimeLastRotate(m, t) ==
    CASE t = "hour"  -> m.timeLastHourRotate
      [] t = "day"   -> m.timeLastDayRotate
      [] t = "week"  -> m.timeLastWeekRotate
      [] t = "month" -> m.timeLastMonthRotate

RingOf(m, t) ==
    CASE t = "hour"  -> m.perHourForDay
      [] t = "day"   -> m.perDayForWeek
      [] t = "week"  -> m.perWeekForMonth
      [] t = "month" -> m.perMonthForYear

\* C23: after n >= 1 wake-ups Minutes()[i] is the value sampled at wake-up
\* n - i for every i below min(n, 60) and 0 in the other slots: a value
\* sampled more than 60 wake-ups ago is no longer in the ring.
C23_MinutesAreLastSamples ==
    mh.calls >= 1
        => /\ Len(Minutes(mh)) = 60
           /\ \A i \in 0..59 :
                 Minutes(mh)[i + 1] = IF i < mh.calls THEN mh.samples[i + 1] ELSE 0
           /\ \A i \in 1..Len(mh.samples) :
                 mh.samples[i] = monitor(mh.monitor, mh.calls - i + 1)

C23_Witness ==
    /\ mh.calls = 62
    /\ mh.monitor = "ramp"
    /\ Minutes(mh)[1] = 62 * Scale
    /\ Minutes(mh)[60] = 3 * Scale
    /\ mh.samples[62] = Scale

\* C24: a coarser ring and its last-rotation instant change only in a
\* wake-up at which more than the tier's threshold (1 h, 24 h, 7 d, 28 d)
\* has passed since that instant, and the instant is then set to the time
\* of the wake-up; so two rotations of one tier are more than the threshold
\* apart.
C24_TierRotatesAfterThreshold ==
    [][ \A t \in Tiers :
          /\ (RingOf(mh', t) # RingOf(mh, t) \/ TimeLastRotate(mh', t) # TimeLastRotate(mh, t))
                => /\ mh'.now - TimeLastRotate(mh, t) > Threshold(t)
                   /\ TimeLastRotate(mh', t) = mh'.now
          /\ LET r == mh'.rotations[t]
             IN  /\ \A i \in 1..Len(r) :
                       r[i] - (IF i = 1 THEN mh'.starttime ELSE r[i - 1]) > Threshold(t)
                 /\ TimeLastRotate(mh', t) =
                       IF r = <<>> THEN mh'.starttime ELSE r[Len(r)] ]_vars

C24_Witness ==
    /\ mh.rotations.hour = <<Day + Minute, Day + Hour + 2 * Minute>>
    /\ mh.rotations.day = <<Day + Minute>>
    /\ mh.rotations.week = <<>>
    /\ mh.calls = 62
    /\ mh.timeLastHourRotate = mh.now
    /\ mh.perHourForDay[2] = Scale

\* C30: a single Stop on a running MonitorHistory returns, and once it has
\* returned the sampler has exited: the monitor closure is not called again
\* and no ring changes.
C30_StopEndsSampler ==
    /\ (mh.stops = 1 /\ mh.stopper = "sending")
          ~> (mh.stopper = "returned" /\ mh.sampler = "exited")
    /\ [](mh.stopper = "returned" => mh.sampler = "exited")
    /\ [][ mh.sampler = "exited"
             => /\ mh'.sampler = "exited"
                /\ mh'.calls = mh.calls
                /\ mh'.samples = mh.samples
                /\ mh'.perMinutePerHour = mh.perMinutePerHour
                /\ \A t \in Tiers : RingOf(mh', t) = RingOf(mh, t) ]_vars

C30_Witness ==
    /\ mh.stops = 1
    /\ mh.stopper = "returned"
    /\ mh.sampler = "exited"
    /\ mh.calls = 3
    /\ mh.perMinutePerHour[1] = 3 * Scale
    /\ Len(mh.rotations.hour) = 1


\* the tick's instants of rotation of tier t
RotatedNow(m, n, t) == Len(n.rotations[t]) > Len(m.rotations[t])

\* C35: within one wake-up the tiers are processed minute, hour, day, week,
\* month: the value pushed into the hour ring is the return of that wake-up's
\* minute rotation, and the value pushed into the day, week and month ring is
\* the accumulation of the hour, day and week ring as it stands after the
\* same wake-up's rotation of the finer tier.
C35_TiersCascadeWithinTick ==
    [][ (mh'.calls = mh.calls + 1) =>
          LET acc == mh.monitorAccumulation IN
          /\ RotatedNow(mh, mh', "hour") =>
                mh'.perHourForDay[1] = accumulate(mh'.perMinutePerHour, acc)
          /\ RotatedNow(mh, mh', "day") =>
                mh'.perDayForWeek[1] = accumulate(mh'.perHourForDay, acc)
          /\ RotatedNow(mh, mh', "week") =>
                mh'.perWeekForMonth[1] = accumulate(mh'.perDayForWeek, acc)
          /\ RotatedNow(mh, mh', "month") =>
                mh'.perMonthForYear[1] = accumulate(mh'.perWeekForMonth, acc) ]_vars

\* the second wake-up comes a month late and rotates every tier: the sum of
\* both samples goes up through all four rings
C35_Witness ==
    /\ lastOp.op = "tick"
    /\ mh.monitorAccumulation = Cumulative
    /\ mh.calls = 2
    /\ mh.rotations.hour = <<Month + 2 * Minute>>
    /\ mh.rotations.month = <<Month + 2 * Minute>>
    /\ mh.perHourForDay[1] = 3 * Scale
    /\ mh.perDayForWeek[1] = 3 * Scale
    /\ mh.perWeekForMonth[1] = 3 * Scale
    /\ mh.perMonthForYear[1] = 3 * Scale

\* the samples of the wake-ups 1..n, oldest first in the history
SamplesUpTo(m, n) == SubSeq(m.samples, Len(m.samples) - n + 1, Len(m.samples))

\* every wake-up so far came exactly a minute after the one before
SampledEveryMinute(m) == m.sampler # "none" /\ m.now = m.calls * Minute

\* the wake-up of the last hour rotation, 0 before the first one
LastHourRotation(m) ==
    IF m.rotations.hour = <<>> THEN 0
    ELSE m.rotations.hour[Len(m.rotations.hour)] \div Minute

\* C36: for a Cumulative monitor sampled exactly every 60 s, while fewer than
\* 24 hour rotations have happened, the sum of the hour ring equals the sum of
\* all samples taken up to and including the wake-up of the last hour
\* rotation: every minute sample is counted in exactly one hour-ring entry.
C36_EverySampleInOneHourEntry ==
    ( /\ SampledEveryMinute(mh)
      /\ mh.monitorAccumulation = Cumulative
      /\ Len(mh.rotations.hour) < 24 )
    => SumOf(mh.perHourForDay) = SumOf(SamplesUpTo(mh, LastHourRotation(mh)))


(***************************************************************************)
(* The message statistics: AddMessage counts into MessageCounter, the      *)
(* closure of the Messages monitor moves the count into                    *)
(* TotalMessageCounter, GetStatistics adds the session baseline.           *)
(***************************************************************************)
MaxSamples == 2

\* counter.Add(unit): the atomic addition, in one step
Add(c, unit) == [c EXCEPT !.count = @ + unit, !.added = @ + unit]

\* GetStatistics: the baseline, plus the TotalMessageCounter once Start has
\* made it
GetStatistics(s, m) ==
    [ TotalMessages |->
        s.existingMessageCount
          + (IF s.metricsPack = "zero" THEN 0 ELSE Count(m.TotalMessageCounter)) ]

\* the messages found in the store when the session begins
EarlierMessages == { message \in Messages : message.Signature = <<72, 105>> }

\* a message added in an earlier session of the server: the store it was
\* added to counted into the counter of that session's Monitors
EarlierSessionAdd(message) ==
    /\ ~server.running
    /\ server.service = "nil"
    /\ CallAddMessage(message)

\* AddMessage on the store opened by Run: incMessageCounterFn adds one to
\* MessageCounter, then the message is dropped, inserted or rejected
AddMessageCounted(message) ==
    /\ server.running
    /\ messageCounter < MaxAdds
    /\ messageCounter' = messageCounter + 1
    /\ ctr' = Add(ctr, 1)
    /\ LET r == AddMessage(table, seq, message)
       IN  /\ table' = r.table
           /\ seq' = r.seq
           /\ applied' = IF r.outcome = "inserted" THEN Append(applied, message) ELSE applied
           /\ lastOp' = Call("add", message, r.outcome)
    /\ submitted' = submitted \cup {message.Signature}
    /\ UNCHANGED <<mh, pack, reply, purged, pending, facadeVars, boardVars, configVars>>

\* the closure of the Messages monitor, called by the sampler once a minute:
\* c = float64(mp.MessageCounter.Count())
ClosureCount ==
    /\ server.metricsPack = "running"
    /\ pack.pc = "idle"
    /\ pack.calls < MaxSamples
    /\ pack' = [pack EXCEPT !.pc = "counted", !.c = Count(ctr), !.calls = @ + 1]
    /\ UNCHANGED <<mh, ctr, lastOp, reply, storeVars, facadeVars, boardVars, configVars>>

\* mp.TotalMessageCounter.Add(int(c))
ClosureAdd ==
    /\ pack.pc = "counted"
    /\ pack' = [pack EXCEPT !.pc = "added", !.TotalMessageCounter.count = @ + pack.c]
    /\ UNCHANGED <<mh, ctr, lastOp, reply, storeVars, facadeVars, boardVars, configVars>>

\* mp.MessageCounter.Reset(); return
ClosureReset ==
    /\ pack.pc = "added"
    /\ pack' = [pack EXCEPT !.pc = "idle"]
    /\ ctr' = Reset(ctr)
    /\ lastOp' = Call("sample", NoMessage, "ok")
    /\ UNCHANGED <<mh, reply, storeVars, facadeVars, boardVars, configVars>>

CallGetStatistics ==
    /\ reply' = GetStatistics(server, pack)
    /\ lastOp' = Call("get_statistics", NoMessage, "ok")
    /\ UNCHANGED <<metricsVars, storeVars, facadeVars, boardVars, configVars>>

NextStatistics ==
    \/ \E message \in EarlierMessages : EarlierSessionAdd(message)
    \/ \E dbOK \in BOOLEAN : Run(dbOK)
    \/ \E message \in Messages : AddMessageCounted(message)
    \/ ClosureCount
    \/ ClosureAdd
    \/ ClosureReset
    \/ CallGetStatistics

SpecStatistics == Init /\ [][NextStatistics]_vars

\* C33: while the closure of the Messages monitor is not in the middle of a
\* call, TotalMessageCounter.Count() plus MessageCounter.Count() is the
\* number of units added to MessageCounter since Run: no Add is lost between
\* the closure's Count and its Reset.
C33_NoIncrementLost ==
    (server.running /\ pack.pc = "idle")
        => Count(pack.TotalMessageCounter) + Count(ctr) = messageCounter

\* C34: without an out-of-band purge, the TotalMessages that GetStatistics
\* returns is at most the number of messages in the store.
C34_TotalMessagesAtMostStored ==
    (lastOp.op = "get_statistics" /\ ~purged)
        => reply.TotalMessages <= MessagesCount(table)

(***************************************************************************)
(* Run when the message store cannot be opened.                            *)
(***************************************************************************)
\* C38: when Run cannot open the message store it returns an error, leaves
\* running = false, spawns neither listener task and leaves both stopped
\* flags unset, so a later Run is not treated as a no-op.
C38_FailedRunLeavesServerNew ==
    [][ /\ (lastOp'.op = "run" /\ lastOp'.outcome = "error" /\ trace'.runs = trace.runs + 1) =>
            /\ ~server'.running
            /\ tasks' = tasks
            /\ \A e \in Endpoints : tasks'[e] = "none" /\ ~StoppedFlag(server', e)
            /\ trace'.spawns = trace.spawns
        /\ (lastOp.op = "run" /\ lastOp.outcome = "error" /\ trace'.runs = trace.runs + 1) =>
            /\ trace'.starts = trace.starts + 1
            /\ lastOp'.outcome = "nil" => server'.running /\ trace'.spawns = trace.spawns + 2
      ]_vars

\* a Run that failed on the store, then a Run that started the server
C38_Witness ==
    /\ lastOp = Call("run", NoMessage, "nil")
    /\ trace.runs = 2
    /\ trace.starts = 2
    /\ trace.opens = 1
    /\ trace.spawns = 2
    /\ server.running
    /\ \A e \in Endpoints : tasks[e] = "listening"


(***************************************************************************)
(* The life of one server: its config is loaded or created, the server is  *)
(* run, shut down and deleted.                                             *)
(***************************************************************************)
\* server.Delete: the write lock, the password check of an encrypted config,
\* os.RemoveAll(s.config.ConfigDir)
CallServerDelete(password) ==
    /\ proc = "ok"
    /\ server.lock = "free"
    /\ CallDelete(HomeDir, password)

\* NewServer(serverConfig): the server of the config in HomeDir
HasServer == mem[HomeDir] # NoConfig

NextLifecycle ==
    \/ \E fresh \in FreshKeys : AppLoadCreate(fresh)
    \/ \E dbOK \in BOOLEAN : HasServer /\ Run(dbOK)
    \/ HasServer /\ Shutdown
    \/ \E e \in Endpoints : ListenReturns(e)
    \/ \E e \in Endpoints : TaskSetsStopped(e)
    \/ \E password \in Passwords : CallServerDelete(password)

SpecLifecycle == Init /\ [][NextLifecycle]_vars

\* C39: the Deleted state is entered only from Stopped or New: delete never
\* removes the config directory while the server is running with live
\* listeners, an open message store and an open token database under it.
C39_DeleteOnlyWhenNotRunning ==
    [][ (lastOp'.op = "delete" /\ disk[HomeDir].exists /\ ~disk'[HomeDir].exists) =>
          \A e \in Endpoints : tasks[e] # "listening" ]_vars

(***************************************************************************)
(* Concurrent SetAttribute calls on the Config of the home directory.      *)
(***************************************************************************)
MaxSets == 3

WrittenKeys == {AttrDescription, AttrAutostart}

WrittenVals == {TestServerDesc, "true"}

\* SetAttribute, first half, under config.lock: config.Attributes[key] = val
SetAttributeCalled(w, key, val) ==
    /\ mem[HomeDir] # NoConfig
    /\ setters.pc[w] = "idle"
    /\ setters.calls < MaxSets
    /\ LET set == SetAttribute_NoSave(mem[HomeDir], key, val, disk[HomeDir]).config
       IN  /\ mem' = [mem EXCEPT ![HomeDir] = set]
           /\ setters' = [setters EXCEPT
                             !.pc[w] = "saving",
                             !.set[w] = <<set>>,
                             !.last = SetKey(@, key, val),
                             !.calls = @ + 1,
                             !.overlapped = @ \/ \E o \in Writers : setters.pc[o] = "saving"]
    /\ reply' = [dir |-> HomeDir, key |-> key, val |-> val]
    /\ lastOp' = Call("set_attribute", NoMessage, "set")
    /\ UNCHANGED <<disk, storeVars, facadeVars, boardVars, metricsVars>>

\* a Save that writes what the Config held at the caller's own write
SetAttributeSaves_OwnWrite(w) ==
    /\ setters.pc[w] = "saving"
    /\ disk' = [disk EXCEPT ![HomeDir] = Save(setters.set[w][1], @)]
    /\ setters' = [setters EXCEPT !.pc[w] = "idle", !.set[w] = <<>>]
    /\ lastOp' = Call("set_attribute", NoMessage, "ok")
    /\ UNCHANGED <<mem, reply, storeVars, facadeVars, boardVars, metricsVars>>

\* SetAttribute, second half: config.Save(), which marshals the Config and
\* writes the file under config.lock; SetAttribute returns
SetAttributeSaves(w) ==
    /\ setters.pc[w] = "saving"
    /\ disk' = [disk EXCEPT ![HomeDir] = Save(mem[HomeDir], @)]
    /\ setters' = [setters EXCEPT !.pc[w] = "idle", !.set[w] = <<>>]
    /\ lastOp' = Call("set_attribute", NoMessage, "ok")
    /\ UNCHANGED <<mem, reply, storeVars, facadeVars, boardVars, metricsVars>>

\* the one Config the goroutines share is loaded or created once
LoadCreateOnce(fresh) ==
    /\ mem[HomeDir] = NoConfig
    /\ AppLoadCreate(fresh)

NextSetters ==
    \/ \E fresh \in FreshKeys : LoadCreateOnce(fresh)
    \/ \E w \in Writers, key \in WrittenKeys, val \in WrittenVals :
          SetAttributeCalled(w, key, val)
    \/ \E w \in Writers : SetAttributeSaves(w)

SpecSetters == Init /\ [][NextSetters]_vars

\* C37: for any interleaving of concurrent SetAttribute calls on one Config,
\* once all calls have returned the in-memory Attributes map holds the last
\* value written for each key and the config file on disk holds exactly the
\* same map: no attribute write is lost by an overlapping Save.
C37_ConcurrentSetAttributeSaved ==
    ( /\ setters.calls > 0
      /\ \A w \in Writers : setters.pc[w] = "idle" )
    => /\ \A key \in DOMAIN setters.last :
             GetAttribute(mem[HomeDir], key) = setters.last[key]
       /\ HasFile(disk[HomeDir])
       /\ disk[HomeDir].file[1].bytes.Attributes = mem[HomeDir].Attributes

\* two calls overlapped: the second wrote its key before the first saved,
\* and both keys are in the file
C37_Witness ==
    /\ \A w \in Writers : setters.pc[w] = "idle"
    /\ setters.overlapped
    /\ setters.calls = 2
    /\ setters.last = (AttrDescription :> TestServerDesc) @@ (AttrAutostart :> "true")
    /\ HasFile(disk[HomeDir])
    /\ disk[HomeDir].file[1].bytes.Attributes = setters.last

====
